----------------------------- MODULE StatusBanner -----------------------------
(***************************************************************************)
(* The system status banner, SystemStatusBanner.jsx: every minute, and    *)
(* whenever the visitor asks, all endpoints are fetched together and the  *)
(* results are shown when the last of them is known.  A fetch is aborted  *)
(* after five seconds.  A check asked for shortly before the minute       *)
(* overlaps the one of the minute, and either may end last.               *)
(* Time is counted in units; timers fire at their time.                   *)
(***************************************************************************)
EXTENDS Naturals

CONSTANTS
  Endpoints,
  CheckEvery,      \* the interval, 60000
  AbortAfter,      \* the time limit of a fetch, 5000
  LastMoment       \* bound on time

ASSUME BannerAssumption ==
  AbortAfter \in Nat \ {0} /\ CheckEvery \in Nat /\ CheckEvery > AbortAfter /\ LastMoment \in Nat

VARIABLES
  moment,
  world,           \* how every endpoint is: up, slow (it outlasts the limit), down (it refuses)
  sickSince,       \* the moment since which an endpoint has not been up; 0 if it is
  checks,          \* the checks awaited: when they began, what they know so far
  bannerShows,     \* services, or <<>> before the first check has ended
  checking,
  tickDue          \* the interval has fired and its check has not begun

bannerVars == <<moment, world, sickSince, checks, bannerShows, checking, tickDue>>

NewCheck(now) == [began |-> now, found |-> [e \in Endpoints |-> "waiting"]]

BannerInit ==
  /\ moment = 0 /\ world = [e \in Endpoints |-> "up"] /\ sickSince = [e \in Endpoints |-> 0]
  /\ checks = {NewCheck(0)} /\ bannerShows = <<>> /\ checking = TRUE /\ tickDue = FALSE

-----------------------------------------------------------------------------

hasIssues == bannerShows # <<>> /\ \E e \in Endpoints : bannerShows[e] # "operational"

\* checkAllServices of the interval, whatever is still awaited.
IntervalCheck ==
  /\ tickDue /\ tickDue' = FALSE
  /\ checks' = checks \cup {NewCheck(moment)} /\ checking' = TRUE
  /\ UNCHANGED <<moment, world, sickSince, bannerShows>>

\* The refresh button, which only a visible banner has.
Refresh ==
  /\ hasIssues /\ ~checking
  /\ checks' = checks \cup {NewCheck(moment)} /\ checking' = TRUE
  /\ UNCHANGED <<moment, world, sickSince, bannerShows, tickDue>>

Overdue_Never(c) == FALSE

\* The AbortController's timer.
Overdue(c) == moment >= c.began + AbortAfter

\* checkServiceHealth: any answer will do, a refusal is an outage, the abort a
\* degradation.
Finding(c, e) ==
  {f \in {"operational", "outage", "degraded"} :
     \/ f = "operational" /\ world[e] = "up"
     \/ f = "outage" /\ world[e] = "down"
     \/ f = "degraded" /\ Overdue(c)}

\* One fetch settles; with the last of its check the results are shown.
FetchSettles(c, e) ==
  /\ c.found[e] = "waiting"
  /\ \E f \in Finding(c, e) :
       LET found == [c.found EXCEPT ![e] = f] IN
       IF \A d \in Endpoints : found[d] # "waiting"
         THEN checks' = checks \ {c} /\ bannerShows' = found /\ checking' = FALSE
         ELSE checks' = (checks \ {c}) \cup {[c EXCEPT !.found = found]} /\ UNCHANGED <<bannerShows, checking>>
  /\ UNCHANGED <<moment, world, sickSince, tickDue>>

-----------------------------------------------------------------------------
(* The endpoints and time (external).                                      *)

WorldChanges(e, s) ==
  /\ s # world[e] /\ world' = [world EXCEPT ![e] = s]
  /\ sickSince' = [sickSince EXCEPT ![e] = CASE s = "up"        -> 0
                                             [] world[e] = "up" -> moment
                                             [] OTHER           -> @]
  /\ UNCHANGED <<moment, checks, bannerShows, checking, tickDue>>

\* Nothing that is due at this moment is left to the next.
Pass ==
  /\ moment < LastMoment /\ ~tickDue
  /\ \A c \in checks : ~Overdue(c)
  /\ moment' = moment + 1 /\ tickDue' = (moment' % CheckEvery = 0)
  /\ UNCHANGED <<world, sickSince, checks, bannerShows, checking>>

BannerNext ==
  \/ IntervalCheck \/ Refresh \/ Pass
  \/ \E c \in checks, e \in Endpoints : FetchSettles(c, e)
  \/ \E e \in Endpoints, s \in {"up", "slow", "down"} : WorldChanges(e, s)

BannerSpec == BannerInit /\ [][BannerNext]_bannerVars

-----------------------------------------------------------------------------

\* An endpoint that has not been up for longer than the interval and two time
\* limits is told: neither a hanging endpoint nor an overlapping check that
\* ends late keeps the banner hidden (SystemStatusBanner.jsx:45-78).
TroubleIsTold ==
  \A e \in Endpoints :
    world[e] # "up" /\ moment - sickSince[e] > CheckEvery + 2 * AbortAfter => hasIssues

=============================================================================
