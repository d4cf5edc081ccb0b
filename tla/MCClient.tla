------------------------------ MODULE MCClient ------------------------------
(* The pages and hooks of the web client, one at a time: scenario says which *)
(* of them runs, the others keep their initial state.  x1 and x2 stand for *)
(* two tabs, nodes, rows ... that are alike, y1 and y2 for two calls in    *)
(* this order.                                                             *)
EXTENDS
  TxFlow, RetryQueue, DepositDialogs, AdminConsole, RpcPools, WalletTabs,
  NotificationCenter, ClientForms, TimedWidgets, CustomRpc, StatusBanner,
  Exports, SavingsMirror, TLC

CONSTANTS s1, s2, x1, x2, y1, y2

VARIABLE scenario

\* DepositDialogs
MCPreviewPools ==
  [tvl : {0, 20, 100}, strategyBps : {0, 8000, 9500}, idle : {-1, 0, 15}, queued : {0, 10, 40},
   maxStrategyBps : {8500}, minIdleBps : {1500}]

\* AdminConsole
MCParamCatalog ==
  [minDepositUnits |-> [min |-> 10, max |-> 1000, current |-> 20, integer |-> TRUE],
   maxDepositPerVaultUnits |-> [min |-> 10, max |-> 90, current |-> 80, integer |-> TRUE],
   treasuryFeeBps |-> [min |-> 5, max |-> 50, current |-> 7, integer |-> FALSE]]

\* RpcPools
\* The calls are alike: y1 is the first of them.
MCPoolNext == PoolNext /\ (poolCall'[y2].kind # "none" => poolCall'[y1].kind # "none")

\* WalletTabs
\* Two checks under way in all, in a tab the first slot before the second; in
\* the header one; one tab awaits the wallet.  Networks are read before anything
\* else.  The accounts are alike: the extension begins with A.
MCTabNext ==
  /\ TabNext
  /\ Cardinality({tc \in Tabs \X Checks : polling'[tc[1]][tc[2]].step = "read"}) <=
       IF surface = "indicator" THEN 2 ELSE 1
  /\ Cardinality({t \in Tabs : connecting'[t] # "no"}) <= 1
  /\ \A t \in Tabs :
       polling[t][2].step = "idle" /\ polling'[t][2].step = "read" => surface = "indicator" /\ polling[t][1].step = "read"
  /\ \A t \in Tabs : netRead[t] => tabKey' = tabKey

\* NotificationCenter
MCAudienceOf == ("apy::vault" :> "vault") @@ ("pause::global" :> "global")

MCAlertInputs ==
  {[identity |-> "apy::vault", content |-> c, expires |-> FALSE] : c \in {1, 2}}
  \cup {[identity |-> "pause::global", content |-> 1, expires |-> TRUE]}

\* The same alert twice, as the page's own seeds, and one that expires.
MCSeedAlerts ==
  <<[identity |-> "apy::vault", content |-> 1, expires |-> FALSE],
    [identity |-> "apy::vault", content |-> 2, expires |-> FALSE],
    [identity |-> "pause::global", content |-> 1, expires |-> TRUE]>>

\* PoolCreation
MCFieldValues == {-1, 1, 2}

\* A name that is too long is as wrong as a short one, a number of places that
\* is too large as one that is missing.
MCPoolFormNext == PoolFormNext /\ draft'.name # 2 /\ draft'.maxParticipants # 2

\* CustomRpc
MCTrimmed == [u \in CustomUrls |-> "node"]

\* The EVM node is typed with a slash, and never left blank; its Test is clicked
\* before the first save, and may be answered after it; two saves are of different
\* values, and of one the Horizon node is heard first.
MCCustomRpcNext ==
  /\ CustomRpcNext
  /\ probesMade' # probesMade => saves = <<>> /\ rpcStatus'["horizon"] = rpcStatus["horizon"]
  /\ Len(saves') = 2 => saves'[1].urls # saves'[2].urls
  /\ \A i \in DOMAIN saves' : saves'[i].verdict["horizon"] = "waiting" => saves'[i].verdict["avalanche"] = "waiting"
  /\ rpcValues'["horizon"] # "node/" /\ rpcValues'["avalanche"] \in {Public, "node/"}

\* StatusBanner
\* An endpoint that hangs or refuses recovers before it does the other.
MCBannerNext == BannerNext /\ \A e \in Endpoints : world'[e] \in {world[e], "up"} \/ world[e] = "up"

\* RoundArchive
MCClosedRounds ==
  {[id |-> 1, ended |-> 1, network |-> "Solana", winnerCount |-> 2, winners |-> <<"w1", "w2">>],
   [id |-> 2, ended |-> 1, network |-> "Avalanche", winnerCount |-> 0, winners |-> <<"w1">>],
   [id |-> 3, ended |-> 2, network |-> "Solana", winnerCount |-> 0, winners |-> <<>>],
   [id |-> 4, ended |-> 3, network |-> "Avalanche", winnerCount |-> 1, winners |-> <<"w2">>]}

\* SavingsMirror
MCTargets == <<1, 2>>

\* The two services share nothing but the clock: one of them at a time, and
\* two enrolments.
MCMirrorNext ==
  /\ MirrorNext
  /\ \/ saver' = [s \in Savers |-> NewParticipation] /\ Cardinality(enrolled') <= 2
     \/ questDb' = seedQuests /\ enrolled' = {}

Scenarios == {
  "transaction", "retries", "dialogs", "admin", "rpc pools", "tabs",
  "notifications", "pool form", "operations", "support", "timers",
  "custom rpc", "banner", "archive", "activity export", "savings"}

MCInit ==
  /\ scenario \in Scenarios
  /\ TxInit
  /\ scenario = "transaction" \/ (waits = FALSE /\ wallet = s1)
  /\ RetryInit
  /\ scenario = "retries" \/ rows = [a \in Queued |-> [present |-> TRUE, status |-> "pending", retryState |-> "idle", retryCount |-> 0, serverStatus |-> "submitted"]]
  /\ DialogInit
  /\ scenario = "dialogs" \/ (dialog = "deposit" /\ limit = 14)
  /\ AdminInit
  /\ scenario = "admin" \/ (visitor = "admin1" /\ page = "settings")
  /\ PoolInit
  /\ scenario = "rpc pools" \/ poolKind = "rpc"
  /\ TabInit
  /\ freighter = "A"
  /\ scenario = "tabs" \/ (surface = "header" /\ walletNet = "testnet")
  /\ NoticeInit
  /\ scenario = "notifications" \/ scopeKey = [p \in Pages |-> "A@testnet"]
  /\ PoolFormInit
  /\ OpsInit
  /\ DeskInit
  /\ TimedInit
  /\ scenario = "timers" \/ (widget = "round" /\ deadline = 1 /\ period = 0)
  /\ CustomRpcInit
  /\ BannerInit
  /\ ArchiveInit
  /\ scenario = "archive" \/ archive = <<>>
  /\ ExportInit
  /\ MirrorInit

\* The variables of a component stay as they are unless it is the one running.
Keeps(s, v) == IF scenario = s THEN TRUE ELSE UNCHANGED v

Frame ==
  /\ UNCHANGED scenario
  /\ Keeps("transaction", txVars)
  /\ Keeps("retries", retryVars)
  /\ Keeps("dialogs", dialogVars)
  /\ Keeps("admin", adminVars)
  /\ Keeps("rpc pools", poolVars)
  /\ Keeps("tabs", tabVars)
  /\ Keeps("notifications", noticeVars)
  /\ Keeps("pool form", poolFormVars)
  /\ Keeps("operations", opsVars)
  /\ Keeps("support", deskVars)
  /\ Keeps("timers", timedVars)
  /\ Keeps("custom rpc", rpcVars)
  /\ Keeps("banner", bannerVars)
  /\ Keeps("archive", archiveVars)
  /\ Keeps("activity export", exportVars)
  /\ Keeps("savings", mirrorVars)

MCNext ==
  \/ scenario = "transaction" /\ TxNext /\ Frame
  \/ scenario = "retries" /\ RetryNext /\ Frame
  \/ scenario = "dialogs" /\ DialogNext /\ Frame
  \/ scenario = "admin" /\ AdminNext /\ Frame
  \/ scenario = "rpc pools" /\ MCPoolNext /\ Frame
  \/ scenario = "tabs" /\ MCTabNext /\ Frame
  \/ scenario = "notifications" /\ NoticeNext /\ Frame
  \/ scenario = "pool form" /\ MCPoolFormNext /\ Frame
  \/ scenario = "operations" /\ OpsNext /\ Frame
  \/ scenario = "support" /\ DeskNext /\ Frame
  \/ scenario = "timers" /\ TimedNext /\ Frame
  \/ scenario = "custom rpc" /\ MCCustomRpcNext /\ Frame
  \/ scenario = "banner" /\ MCBannerNext /\ Frame
  \/ scenario = "archive" /\ ArchiveNext /\ Frame
  \/ scenario = "activity export" /\ ExportNext /\ Frame
  \/ scenario = "savings" /\ MCMirrorNext /\ Frame

mcVars == <<
  scenario, txVars, retryVars, dialogVars, adminVars, poolVars, tabVars,
  noticeVars, poolFormVars, opsVars, deskVars, timedVars, rpcVars, bannerVars,
  archiveVars, exportVars, mirrorVars>>

MCSpec == MCInit /\ [][MCNext]_mcVars

\* The administrators' console alone.
MCAdminSpec == MCInit /\ scenario = "admin" /\ [][MCNext]_mcVars

Symmetry == Permutations({x1, x2})

-----------------------------------------------------------------------------
\* What the client says of a transaction is so: success was confirmed when
\* it waits for that, what a reload recovers is what was on the screen,
\* backoff really retries, the RPC pools submit a transaction once and ask
\* a live node for critical reads, a file that was exported is whole, and
\* claims pay what was earned.
OutcomesAreReal ==
  /\ SuccessIsConfirmed
  /\ RecordMatchesScreen
  /\ BackoffIsPending
  /\ SubmittedAtMostOnce
  /\ CriticalReadsAsk
  /\ ExportedIsWhole
  /\ ClaimsAreEarned

\* What leaves a form passed its checks in the state in which it leaves,
\* however often the user went back and edited: deposits, pools, tickets,
\* parameters and custom endpoints.
SentWasChecked ==
  /\ SignedWasChecked
  /\ DepositNeverAddsWarning
  /\ SignedPoolIsSound
  /\ SentIsAnswerable
  /\ ShownErrorHolds
  /\ UnblockedIsWithinBounds
  /\ InUseWasReached

\* What a page shows agrees with what it holds, although effects restart
\* and answers come late: unread counts, the progress and range of a replay,
\* the archive and its export, the status banner, the price of the selected
\* network, countdowns, stalled bridges and refreshes.
ShownIsSo ==
  /\ CountedIsVisible
  /\ ProgressNeverEarly
  /\ ShownRangeIsRunning
  /\ ExportIsOrderFree
  /\ ShownAreTheNewest
  /\ TroubleIsTold
  /\ PriceOfNetwork
  /\ FrozenOnlyAtTheEnd
  /\ StalledIsOverdue
  /\ RefreshesAreSpaced
  /\ MaturityToldOnce

\* What the user decided stays decided: a background check does not adopt a
\* wallet again that was disconnected while it ran, dismissed alerts, made
\* decisions and error toasts stay.
ChoicesStand ==
  [][/\ CheckNeverReadopts
     /\ DismissedStaysDismissed
     /\ ReloadRemembers
     /\ DecisionStands
     /\ ErrorToastStays]_mcVars
==============================================================================
