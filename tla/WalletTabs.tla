------------------------------ MODULE WalletTabs ------------------------------
(***************************************************************************)
(* The wallet connection of a browser: walletService.ts and the component  *)
(* that keeps it in step with the Freighter extension, in each open tab    *)
(* StellarWalletIndicator.tsx or its older form HeaderWalletStatus.jsx.    *)
(* Tabs share localStorage; handlers await the extension, and other        *)
(* handlers of the tab run meanwhile: the interval, the focus and the      *)
(* storage event each start a check, whether or not others still wait.     *)
(***************************************************************************)
EXTENDS Naturals, FiniteSets

CONSTANTS
  Tabs,
  Accounts,     \* addresses of the extension
  Networks,
  Checks,       \* the checks one tab may have under way, a bound
  MaxChanges    \* bound on what the user does in the extension

ASSUME WalletTabAssumption == MaxChanges \in Nat

NoKey == "none"

VARIABLES
  surface,       \* which of the two components the tabs show
  freighter,     \* the extension: an address, "locked", or "absent"
  walletNet,     \* the network selected in the extension
  changes,
  stored,        \* localStorage publicKey
  tabKey,        \* tab -> connectedPublicKey
  tabNet,        \* tab -> connectedNetwork
  netRead,       \* tab -> getConnectedNetwork is being awaited
  suppressed,    \* tab -> suppressedAddressRef
  polling,       \* tab -> check -> what it read and the key its closure holds
  connecting,    \* tab -> what is being awaited: "connect", "disconnect" or nothing
  storageEvent,  \* tab -> a storage event is to be delivered
  parted         \* tab -> the address its user disconnected last, until the user
                 \* asks for a wallet again, and whether a check met another since

tabVars == <<surface, freighter, walletNet, changes, stored, tabKey, tabNet, netRead, suppressed, polling, connecting, storageEvent, parted>>

IdlePoll == [step |-> "idle", address |-> NoKey, seen |-> NoKey]
NotParted == [from |-> NoKey, metOther |-> FALSE]

TabInit ==
  /\ surface \in {"indicator", "header"}
  /\ freighter \in Accounts
  /\ walletNet \in Networks
  /\ changes = 0 /\ stored = NoKey
  /\ tabKey = [t \in Tabs |-> NoKey] /\ tabNet = [t \in Tabs |-> NoKey]
  /\ netRead = [t \in Tabs |-> FALSE] /\ suppressed = [t \in Tabs |-> NoKey]
  /\ polling = [t \in Tabs |-> [c \in Checks |-> IdlePoll]]
  /\ connecting = [t \in Tabs |-> "no"] /\ storageEvent = [t \in Tabs |-> FALSE]
  /\ parted = [t \in Tabs |-> NotParted]

-----------------------------------------------------------------------------
(* walletService.                                                            *)

\* localStorage tells the other tabs when a value changes.
Stores(t, key) ==
  /\ stored' = key
  /\ storageEvent' = [u \in Tabs |-> storageEvent[u] \/ (u # t /\ stored # key)]

\* The network is read in the background.
setConnection(t, key) ==
  /\ tabKey' = [tabKey EXCEPT ![t] = key]
  /\ Stores(t, key)
  /\ netRead' = [netRead EXCEPT ![t] = TRUE]
  /\ UNCHANGED tabNet

disconnect(t) ==
  /\ tabKey' = [tabKey EXCEPT ![t] = NoKey]
  /\ tabNet' = [tabNet EXCEPT ![t] = NoKey]
  /\ Stores(t, NoKey)
  /\ UNCHANGED netRead

KeepConnection == UNCHANGED <<stored, storageEvent, tabKey, tabNet, netRead>>

\* The background read ends, whatever the tab is connected to by then.
getConnectedNetwork(t) ==
  /\ netRead[t]
  /\ netRead' = [netRead EXCEPT ![t] = FALSE]
  /\ tabNet' = [tabNet EXCEPT ![t] = walletNet]
  /\ UNCHANGED <<surface, freighter, walletNet, changes, stored, tabKey, suppressed, polling, connecting, storageEvent, parted>>

-----------------------------------------------------------------------------
(* Following the extension.                                                  *)

\* The header's check holds the key of the render it was made in.
readExternalFreighterAddress(t) ==
  [step |-> "read", address |-> freighter, seen |-> IF surface = "header" THEN tabKey[t] ELSE NoKey]

\* On an interval, on focus, when the tab becomes visible.
BeginCheck(t, c) ==
  /\ polling[t][c].step = "idle"
  /\ polling' = [polling EXCEPT ![t][c] = readExternalFreighterAddress(t)]
  /\ UNCHANGED <<surface, freighter, walletNet, changes, stored, tabKey, tabNet, netRead, suppressed, connecting, storageEvent, parted>>

ComparedKey(t, c) == IF surface = "header" THEN polling[t][c].seen ELSE tabKey[t]

Suppresses(t, address) == suppressed[t] = address

\* The extension has no account for the page: disconnect; it has the suppressed
\* one: leave it; another: adopt it.  Nothing else is done but to read the network.
checkExternalConnection(t, c) ==
  LET address == polling[t][c].address
      key == ComparedKey(t, c) IN
  /\ polling[t][c].step = "read"
  /\ polling' = [polling EXCEPT ![t][c] = IdlePoll]
  /\ parted' = [parted EXCEPT ![t].metOther = @ \/ (address \in Accounts /\ address # parted[t].from)]
  /\ IF address = "locked" /\ key # NoKey
     THEN disconnect(t) /\ UNCHANGED suppressed
     ELSE IF address \in Accounts /\ Suppresses(t, address)
     THEN KeepConnection /\ UNCHANGED suppressed
     ELSE /\ suppressed' = IF address \in Accounts THEN [suppressed EXCEPT ![t] = NoKey] ELSE suppressed
          /\ IF address \in Accounts /\ address # key
             THEN setConnection(t, address)
             ELSE /\ netRead' = [netRead EXCEPT ![t] = @ \/ tabKey[t] # NoKey]
                  /\ UNCHANGED <<stored, storageEvent, tabKey, tabNet>>
  /\ UNCHANGED <<surface, freighter, walletNet, changes, connecting>>

\* The tab adopts what is stored.
FromStore(t) ==
  IF stored = NoKey THEN UNCHANGED <<tabKey, netRead>>
  ELSE tabKey' = [tabKey EXCEPT ![t] = stored] /\ netRead' = [netRead EXCEPT ![t] = TRUE]

\* On a storage event; a check follows.
initializeConnection(t) ==
  /\ storageEvent[t]
  /\ FromStore(t)
  /\ storageEvent' = [storageEvent EXCEPT ![t] = FALSE]
  /\ UNCHANGED <<surface, freighter, walletNet, changes, stored, tabNet, suppressed, polling, connecting, parted>>

\* The page of a disconnected tab is loaded again: what it remembered is gone.
OpenTab(t) ==
  /\ tabKey[t] = NoKey
  /\ FromStore(t)
  /\ storageEvent' = [storageEvent EXCEPT ![t] = FALSE]
  /\ suppressed' = [suppressed EXCEPT ![t] = NoKey]
  /\ polling' = [polling EXCEPT ![t] = [c \in Checks |-> IdlePoll]]
  /\ connecting' = [connecting EXCEPT ![t] = "no"]
  /\ parted' = [parted EXCEPT ![t] = NotParted]
  /\ UNCHANGED <<surface, freighter, walletNet, changes, stored, tabNet>>

\* The indicator: a tab that becomes visible follows a disconnection of another.
onVisibilityChange(t) ==
  /\ surface = "indicator" /\ stored = NoKey /\ tabKey[t] # NoKey
  /\ disconnect(t)
  /\ UNCHANGED <<surface, freighter, walletNet, changes, suppressed, polling, connecting, parted>>

-----------------------------------------------------------------------------
(* The user.                                                                 *)

handleConnect(t) ==
  /\ tabKey[t] = NoKey /\ connecting[t] = "no"
  /\ connecting' = [connecting EXCEPT ![t] = "connect"]
  /\ suppressed' = [suppressed EXCEPT ![t] = NoKey]
  /\ parted' = [parted EXCEPT ![t] = NotParted]
  /\ UNCHANGED <<surface, freighter, walletNet, changes, stored, tabKey, tabNet, netRead, polling, storageEvent>>

connectWallet(t) ==
  /\ connecting[t] = "connect"
  /\ connecting' = [connecting EXCEPT ![t] = "no"]
  /\ \/ freighter \in Accounts /\ setConnection(t, freighter)
     \/ KeepConnection
  /\ UNCHANGED <<surface, freighter, walletNet, changes, suppressed, polling, parted>>

Remembered_Afterwards(t) == NoKey

\* What the indicator keeps from its checks: the address it had.
Remembered(t) == tabKey[t]

\* The header awaits the wallet kit before it disconnects and remembers nothing.
handleDisconnect(t) ==
  /\ tabKey[t] # NoKey
  /\ parted' = [parted EXCEPT ![t] = [from |-> tabKey[t], metOther |-> FALSE]]
  /\ \/ /\ surface = "indicator" /\ suppressed' = [suppressed EXCEPT ![t] = Remembered(t)]
        /\ disconnect(t) /\ UNCHANGED connecting
     \/ /\ surface = "header" /\ connecting[t] = "no"
        /\ connecting' = [connecting EXCEPT ![t] = "disconnect"]
        /\ KeepConnection /\ UNCHANGED suppressed
  /\ UNCHANGED <<surface, freighter, walletNet, changes, polling>>

disconnectWallet(t) ==
  /\ connecting[t] = "disconnect"
  /\ connecting' = [connecting EXCEPT ![t] = "no"]
  /\ disconnect(t)
  /\ UNCHANGED <<surface, freighter, walletNet, changes, suppressed, polling, parted>>

\* In the extension: another account, locking it, another network.
UseExtension ==
  /\ changes < MaxChanges /\ changes' = changes + 1
  /\ \/ freighter' \in Accounts \cup {"locked", "absent"} /\ UNCHANGED walletNet
     \/ walletNet' \in Networks /\ UNCHANGED freighter
  /\ UNCHANGED <<surface, stored, tabKey, tabNet, netRead, suppressed, polling, connecting, storageEvent, parted>>

TabNext ==
  \/ \E t \in Tabs :
       \/ getConnectedNetwork(t) \/ initializeConnection(t) \/ OpenTab(t) \/ onVisibilityChange(t)
       \/ handleConnect(t) \/ connectWallet(t) \/ handleDisconnect(t) \/ disconnectWallet(t)
       \/ \E c \in Checks : BeginCheck(t, c) \/ checkExternalConnection(t, c)
  \/ UseExtension

TabSpec == TabInit /\ [][TabNext]_tabVars

-----------------------------------------------------------------------------

\* In the indicator, no check brings back the address the user disconnected in
\* this tab before the user asks for a wallet again, however many checks were
\* under way when the user did: unless a check of the tab met another address
\* since, from when on the tab follows the extension, and a check that read the
\* old address may still come (StellarWalletIndicator.tsx:135-141, 223-231).
CheckNeverReadopts ==
  [\A t \in Tabs, c \in Checks :
     surface = "indicator" /\ checkExternalConnection(t, c) /\ tabKey'[t] # tabKey[t] /\ tabKey'[t] = parted[t].from
       => parted'[t].metOther \/ tabKey'[t] = NoKey]_tabVars

=============================================================================
