----------------------------- MODULE ClientForms ----------------------------
(***************************************************************************)
(* Two forms of the web client, each a machine of its own: the form that   *)
(* creates a pool and the support widget.                                  *)
(***************************************************************************)
EXTENDS Integers, FiniteSets, FiniteSetsExt

(***************************************************************************)
(* The form that creates a pool, PoolCreationForm.jsx: fields are edited,  *)
(* validated, reviewed and signed, and a failed submission returns to the  *)
(* review. Deposits, participants and dates are small numbers; NaN stands  *)
(* for a field that is empty or no number.                                 *)
(***************************************************************************)
CONSTANTS
  DepositFloor, DepositCeiling,   \* VALIDATION.minDeposit
  CapFloor, CapCeiling,           \* VALIDATION.maxDeposit
  MaxPlaces,                      \* VALIDATION.maxParticipants.max
  FieldValues,                    \* what may be typed into a numeric or date field
  MaxPools                        \* bound on the submissions

ASSUME PoolCreationAssumption ==
  /\ {DepositFloor, DepositCeiling, CapFloor, CapCeiling, MaxPlaces, MaxPools} \subseteq Nat
  /\ FieldValues \subseteq Nat \cup {-1}

NaN == -1

FormFields == {"name", "minDeposit", "maxDeposit", "maxParticipants", "startDate", "endDate"}

VARIABLES
  draft,         \* field -> its value
  draftErrors,   \* fields whose error is shown
  errorKeys,     \* keys of the errors object: an edit leaves its key behind
  stage,         \* form, review, submitting or success
  signing,       \* pending
  asked          \* drafts given to onSubmit, with the outcome (history)

poolFormVars == <<draft, draftErrors, errorKeys, stage, signing, asked>>

\* The name is its length compared with the limits: 0 short, 1 good, 2 long.
EmptyDraft ==
  [name |-> 0, minDeposit |-> DepositFloor, maxDeposit |-> CapCeiling,
   maxParticipants |-> MaxPlaces, startDate |-> NaN, endDate |-> NaN]

PoolFormInit ==
  /\ draft = EmptyDraft /\ draftErrors = {} /\ errorKeys = {}
  /\ stage = "form" /\ signing = FALSE /\ asked = {}

-----------------------------------------------------------------------------

\* Dates are compared only when both are given.
DatesWrong(f) == NaN \notin {f.startDate, f.endDate} /\ f.startDate >= f.endDate

LimitsWrong(f) == NaN \notin {f.minDeposit, f.maxDeposit} /\ f.minDeposit >= f.maxDeposit

\* The fields that get an error.
validateForm(f) ==
  {k \in FormFields :
     CASE k = "name" -> f.name # 1
       [] k = "minDeposit" -> f.minDeposit < DepositFloor \/ f.minDeposit > DepositCeiling
       [] k = "maxDeposit" -> f.maxDeposit < CapFloor \/ f.maxDeposit > CapCeiling \/ LimitsWrong(f)
       [] k = "maxParticipants" -> f.maxParticipants < 1 \/ f.maxParticipants > MaxPlaces
       [] k = "startDate" -> f.startDate = NaN
       [] k = "endDate" -> f.endDate = NaN \/ DatesWrong(f)}

\* An edit clears the error of its own field.
update(k, v) ==
  /\ stage = "form" /\ v # draft[k]
  /\ draft' = [draft EXCEPT ![k] = v]
  /\ draftErrors' = draftErrors \ {k}
  /\ errorKeys' = errorKeys \cup {k}
  /\ UNCHANGED <<stage, signing, asked>>

handleNext ==
  /\ stage = "form"
  /\ IF validateForm(draft) # {}
       THEN /\ draftErrors' = validateForm(draft) /\ errorKeys' = validateForm(draft)
            /\ UNCHANGED stage
       ELSE stage' = "review" /\ UNCHANGED <<draftErrors, errorKeys>>
  /\ UNCHANGED <<draft, signing, asked>>

PreviousStep == stage = "review" /\ stage' = "form" /\ UNCHANGED <<draft, draftErrors, errorKeys, signing, asked>>

\* handleSubmit up to its await.
SignPool ==
  /\ stage = "review" /\ ~signing /\ Cardinality(asked) < MaxPools
  /\ signing' = TRUE /\ stage' = "submitting"
  /\ asked' = asked \cup {[draft |-> draft, attempt |-> Cardinality(asked)]}
  /\ UNCHANGED <<draft, draftErrors, errorKeys>>

\* onSubmit returns or throws.
PoolSubmitted(ok) ==
  /\ signing /\ signing' = FALSE
  /\ stage' = IF ok THEN "success" ELSE "review"
  /\ UNCHANGED <<draft, draftErrors, errorKeys, asked>>

\* "Create another pool" resets the fields and keeps the errors.
CreateAnother ==
  /\ stage = "success" /\ stage' = "form" /\ draft' = EmptyDraft
  /\ UNCHANGED <<draftErrors, errorKeys, signing, asked>>

PoolFormNext ==
  \/ \E v \in 0 .. 2 : update("name", v)
  \/ \E k \in FormFields \ {"name"}, v \in FieldValues : update(k, v)
  \/ handleNext \/ PreviousStep \/ SignPool \/ CreateAnother
  \/ \E ok \in BOOLEAN : PoolSubmitted(ok)

PoolFormSpec == PoolFormInit /\ [][PoolFormNext]_poolFormVars

-----------------------------------------------------------------------------
(* Properties.                                                               *)

\* Whatever was edited, reviewed, refused and submitted again, the draft that is
\* signed has ordered deposit limits within their bounds and a round of at least
\* a day (validateForm).
SignedPoolIsSound ==
  \A a \in asked :
    /\ DepositFloor <= a.draft.minDeposit /\ a.draft.minDeposit < a.draft.maxDeposit
    /\ a.draft.minDeposit <= DepositCeiling /\ a.draft.maxDeposit <= CapCeiling
    /\ NaN < a.draft.startDate /\ a.draft.startDate < a.draft.endDate
    /\ a.draft.maxParticipants \in 1 .. MaxPlaces

(***************************************************************************)
(* The support widget, SupportWidget.jsx: FAQ pages and a ticket form that *)
(* is validated and then awaited while the visitor can go on typing, leave *)
(* the view and close the widget.                                          *)
(***************************************************************************)
CONSTANTS
  FaqTopics,
  MaxTickets      \* bound on the tickets sent

ASSUME SupportAssumption == MaxTickets \in Nat

TicketFields == {"name", "email", "description"}

\* What a field may hold; only an address is ever malformed.
TicketTexts(k) == {"blank", "text"} \cup (IF k = "email" THEN {"malformed"} ELSE {})

VARIABLES
  widgetOpen, widgetView, topic,
  ticket,          \* formData
  ticketErrors,    \* the fields whose error is shown
  sending,         \* isSubmitting
  sentTicket,      \* the ticket handleSubmit validated last
  ticketsSent

deskVars == <<widgetOpen, widgetView, topic, ticket, ticketErrors, sending, sentTicket, ticketsSent>>

BlankTicket == [k \in TicketFields |-> "blank"]

DeskInit ==
  /\ widgetOpen = FALSE /\ widgetView = "home" /\ topic = "none"
  /\ ticket = BlankTicket /\ ticketErrors = {} /\ sending = FALSE
  /\ sentTicket = [k \in TicketFields |-> "text"] /\ ticketsSent = 0

-----------------------------------------------------------------------------

toggleWidget ==
  /\ widgetOpen' = ~widgetOpen
  /\ widgetView' = IF widgetOpen THEN widgetView ELSE "home"
  /\ ticketErrors' = IF widgetOpen THEN ticketErrors ELSE {}
  /\ UNCHANGED <<topic, ticket, sending, sentTicket, ticketsSent>>

\* The buttons of each view.
LinksOf(view) ==
  CASE view = "home" -> {"faq-list", "ticket"}
    [] view = "faq-detail" -> {"faq-list", "ticket"}
    [] OTHER -> {"home"}

Navigate(view) ==
  /\ widgetOpen /\ view \in LinksOf(widgetView)
  /\ widgetView' = view
  /\ UNCHANGED <<widgetOpen, topic, ticket, ticketErrors, sending, sentTicket, ticketsSent>>

OpenTopic(t) ==
  /\ widgetOpen /\ widgetView = "faq-list"
  /\ topic' = t /\ widgetView' = "faq-detail"
  /\ UNCHANGED <<widgetOpen, ticket, ticketErrors, sending, sentTicket, ticketsSent>>

validateTicket(f) == {k \in TicketFields : f[k] # "text"}

\* An edit clears the error of its field.
ClearedError(errors, k) == errors \ {k}

handleInputChange(k, text) ==
  /\ widgetOpen /\ widgetView = "ticket" /\ text # ticket[k]
  /\ ticket' = [ticket EXCEPT ![k] = text]
  /\ ticketErrors' = ClearedError(ticketErrors, k)
  /\ UNCHANGED <<widgetOpen, widgetView, topic, sending, sentTicket, ticketsSent>>

\* handleSubmit up to its await; the button is disabled while one is awaited.
SubmitTicket ==
  /\ widgetOpen /\ widgetView = "ticket" /\ ~sending /\ ticketsSent < MaxTickets
  /\ IF validateTicket(ticket) # {}
       THEN ticketErrors' = validateTicket(ticket) /\ UNCHANGED <<sending, sentTicket, ticketsSent>>
       ELSE /\ sending' = TRUE /\ sentTicket' = ticket /\ ticketsSent' = ticketsSent + 1
            /\ UNCHANGED ticketErrors
  /\ UNCHANGED <<widgetOpen, widgetView, topic, ticket>>

\* The rest of handleSubmit, in whatever view the visitor is now.
TicketAccepted ==
  /\ sending /\ sending' = FALSE
  /\ widgetView' = "success" /\ ticket' = BlankTicket
  /\ UNCHANGED <<widgetOpen, topic, ticketErrors, sentTicket, ticketsSent>>

DeskNext ==
  \/ toggleWidget \/ SubmitTicket \/ TicketAccepted
  \/ \E v \in {"home", "faq-list", "ticket"} : Navigate(v)
  \/ \E t \in FaqTopics : OpenTopic(t)
  \/ \E k \in TicketFields : \E x \in TicketTexts(k) : handleInputChange(k, x)

DeskSpec == DeskInit /\ [][DeskNext]_deskVars

-----------------------------------------------------------------------------
(* Properties.                                                               *)

\* An error shown beside a field is true of what the field holds now, through
\* edits, submissions that are still awaited and reopening (SupportWidget.jsx).
ShownErrorHolds == widgetOpen => ticketErrors \subseteq validateTicket(ticket)

\* Every ticket that is sent is complete and can be answered: the address is
\* checked as well as the blanks (validateForm).
SentIsAnswerable == \A k \in TicketFields : sentTicket[k] = "text"
=============================================================================
