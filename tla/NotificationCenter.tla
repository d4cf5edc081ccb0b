-------------------------- MODULE NotificationCenter --------------------------
(***************************************************************************)
(* The notification center: lib/notification-dedup.ts collapses alerts by  *)
(* identity, NotificationProvider.tsx keeps the list of a mounted page and *)
(* writes its read and dismissed ids to localStorage under the key of the  *)
(* current wallet and network, which every open page shares.               *)
(*                                                                         *)
(* An alert's identity (type, scope and subject) is a member of Identities *)
(* and its id the same member (the 32-bit hash is taken as injective); its *)
(* title, message and date are one content.  A list is a function from the *)
(* identities in it, so its order, which only the display uses, is left    *)
(* out.                                                                    *)
(***************************************************************************)
EXTENDS Naturals, Sequences, FiniteSets, Functions

CONSTANTS
  Pages,           \* mounted copies of the page
  AccountKeys,     \* the wallet-and-network keys the page may be given
  Identities,
  AudienceOf,      \* identity -> wallet, vault or global
  AlertInputs,     \* alerts the protocol may emit
  SeedAlerts,      \* initialAlerts
  MaxVersion       \* bound on the updates of one alert

Alerts == [identity : Identities, content : Nat, expires : BOOLEAN]

ASSUME NotificationAssumption ==
  /\ MaxVersion \in Nat /\ AlertInputs \subseteq Alerts /\ SeedAlerts \in Seq(Alerts)
  /\ "nobody" \notin Pages

VARIABLES
  notices,         \* page -> its list
  scopeKey,        \* page -> the key it was last given
  remembered,      \* key -> what localStorage holds
  lastWrote,       \* key -> the page that wrote it last (history)
  late             \* the expiry of the alerts that expire has passed

noticeVars == <<notices, scopeKey, remembered, lastWrote, late>>

NothingRemembered == [readIds |-> {}, dismissedIds |-> {}]

-----------------------------------------------------------------------------
(* notification-dedup.                                                       *)

createNotification(a) ==
  [content |-> a.content, expires |-> a.expires,
   status |-> "unread", dismissed |-> FALSE, version |-> 1]

contentSignature(n) == n.content

\* A true duplicate changes nothing, an update replaces the alert in place.
upsertNotification(list, id, incoming) ==
  IF id \notin DOMAIN list THEN [i \in DOMAIN list \cup {id} |-> IF i = id THEN incoming ELSE list[i]]
  ELSE IF contentSignature(list[id]) = contentSignature(incoming) THEN list
  ELSE [list EXCEPT ![id] =
          [incoming EXCEPT !.dismissed = list[id].dismissed, !.version = list[id].version + 1]]

markAllNotificationsRead(list) == [i \in DOMAIN list |-> [list[i] EXCEPT !.status = "read"]]

markNotificationRead(list, id) ==
  [i \in DOMAIN list |-> IF i = id THEN [list[i] EXCEPT !.status = "read"] ELSE list[i]]

dismissNotification(list, id) ==
  [i \in DOMAIN list |-> IF i = id THEN [list[i] EXCEPT !.dismissed = TRUE] ELSE list[i]]

\* Every alert, or the alerts of one audience.
dismissAllNotifications(list, audiences) ==
  [i \in DOMAIN list |->
     IF AudienceOf[i] \in audiences THEN [list[i] EXCEPT !.dismissed = TRUE] ELSE list[i]]

pruneExpiredNotifications(list) ==
  Restrict(list, {i \in DOMAIN list : ~(list[i].expires /\ late)})

countUnread(list) ==
  Cardinality({i \in DOMAIN list : list[i].status = "unread" /\ ~list[i].dismissed})

\* The rows the page shows under its two filters.
visibleNotifications(list, showUnreadOnly, showDismissed) ==
  {i \in DOMAIN list : /\ showDismissed \/ ~list[i].dismissed
                       /\ showUnreadOnly => list[i].status = "unread"}

-----------------------------------------------------------------------------
(* NotificationProvider.                                                     *)

\* The effect that follows every change of the list or of the key.
StoredIds(list) ==
  [readIds |-> {i \in DOMAIN list : list[i].status = "read"},
   dismissedIds |-> {i \in DOMAIN list : list[i].dismissed}]

Remember(p, list, key) ==
  /\ remembered' = [remembered EXCEPT ![key] = StoredIds(list)]
  /\ lastWrote' = [lastWrote EXCEPT ![key] = p]

\* setNotifications and the effect; an unchanged list re-renders nothing.
Show(p, list) ==
  /\ list # notices[p]
  /\ notices' = [notices EXCEPT ![p] = list]
  /\ Remember(p, list, scopeKey[p])
  /\ UNCHANGED <<scopeKey, late>>

\* The first n seeds, one upserted after the other.
seedsLoaded[n \in 0 .. Len(SeedAlerts)] ==
  IF n = 0 THEN <<>>
  ELSE upsertNotification(seedsLoaded[n - 1], SeedAlerts[n].identity, createNotification(SeedAlerts[n]))

loadSeeds == seedsLoaded[Len(SeedAlerts)]

\* The list a page starts from: the seeds, marked from what is remembered.
Hydrated(key) ==
  pruneExpiredNotifications(
    [i \in DOMAIN loadSeeds |->
       [loadSeeds[i] EXCEPT
          !.status = IF i \in remembered[key].readIds THEN "read" ELSE @,
          !.dismissed = @ \/ i \in remembered[key].dismissedIds]])

NoticeInit ==
  /\ remembered = [k \in AccountKeys |-> NothingRemembered]
  /\ lastWrote = [k \in AccountKeys |-> "nobody"]
  /\ scopeKey \in [Pages -> AccountKeys]
  /\ late = FALSE
  /\ notices = [p \in Pages |-> loadSeeds]

\* Loading the page again, for the key it is given.
ReopenPage(p) ==
  /\ notices' = [notices EXCEPT ![p] = Hydrated(scopeKey[p])]
  /\ Remember(p, Hydrated(scopeKey[p]), scopeKey[p])
  /\ UNCHANGED <<scopeKey, late>>

\* A mounted provider is given another key: only the effect runs again.
SwitchScope(p, key) ==
  /\ key # scopeKey[p]
  /\ scopeKey' = [scopeKey EXCEPT ![p] = key]
  /\ Remember(p, notices[p], key)
  /\ UNCHANGED <<notices, late>>

dispatchAlert(p, a) ==
  /\ a.identity \in DOMAIN notices[p] => notices[p][a.identity].version < MaxVersion
  /\ Show(p, upsertNotification(notices[p], a.identity, createNotification(a)))

markRead(p, id) == Show(p, markNotificationRead(notices[p], id))

markAllRead(p) == Show(p, markAllNotificationsRead(notices[p]))

dismiss(p, id) == Show(p, dismissNotification(notices[p], id))

dismissAll(p, audiences) == Show(p, dismissAllNotifications(notices[p], audiences))

clearExpired(p) == Show(p, pruneExpiredNotifications(notices[p]))

Expire == ~late /\ late' = TRUE /\ UNCHANGED <<notices, scopeKey, remembered, lastWrote>>

Audiences == Range(AudienceOf)

NoticeNext ==
  \/ Expire
  \/ \E p \in Pages :
       \/ ReopenPage(p) \/ markAllRead(p) \/ clearExpired(p)
       \/ \E k \in AccountKeys : SwitchScope(p, k)
       \/ \E a \in AlertInputs : dispatchAlert(p, a)
       \/ \E i \in DOMAIN notices[p] : markRead(p, i) \/ dismiss(p, i)
       \/ \E s \in {Audiences} \cup {{x} : x \in Audiences} : dismissAll(p, s)

NoticeSpec == NoticeInit /\ [][NoticeNext]_noticeVars

-----------------------------------------------------------------------------
(* Properties.                                                               *)

Identified(p) == DOMAIN notices[p] \cap DOMAIN notices'[p]

\* "a dismissed alert stays dismissed across updates" (notification-dedup.ts):
\* while it is in the list of a page that is not reloaded, whatever is
\* dispatched, and whatever other pages write.
DismissedStaysDismissed ==
  [\A p \in Pages :
     (\E i \in Identified(p) : notices[p][i].dismissed /\ ~notices'[p][i].dismissed) => ReopenPage(p)]_noticeVars

\* A page that is reloaded shows every seed alert as it was read and dismissed
\* if no other page has written under its key since (NotificationProvider.tsx).
ReloadRemembers ==
  [\A p \in Pages : lastWrote[scopeKey[p]] = p /\ ReopenPage(p) =>
     \A i \in Identified(p) :
       /\ notices[p][i].dismissed => notices'[p][i].dismissed
       /\ notices[p][i].status = "read" => notices'[p][i].status = "read"]_noticeVars

\* The unread badge counts only alerts the page shows, however it is filtered.
CountedIsVisible ==
  \A p \in Pages, unreadOnly, withDismissed \in BOOLEAN :
    countUnread(notices[p]) <= Cardinality(visibleNotifications(notices[p], unreadOnly, withDismissed))
=============================================================================
