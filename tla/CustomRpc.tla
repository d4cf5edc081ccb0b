------------------------------ MODULE CustomRpc ------------------------------
(***************************************************************************)
(* The custom RPC settings: the dialog of CustomRpcModal.jsx, the store   *)
(* and the pings of lib/customRpc.js, and the EVM configuration that      *)
(* Providers.jsx builds from them with createWagmiConfig of lib/wagmi.js. *)
(* A ping is awaited for up to ten seconds, during which the visitor may  *)
(* edit the fields, save again, close the dialog and open it again.       *)
(***************************************************************************)
EXTENDS Naturals, Sequences

CONSTANTS
  RpcFields,       \* FIELDS
  CustomUrls,      \* what a visitor types beside the default and nothing
  Trimmed,         \* custom URL -> the same without trailing slashes
  MaxSaves,        \* bound on the clicks of Save & apply
  MaxProbes        \* bound on the clicks of Test

ASSUME CustomRpcAssumption ==
  /\ {MaxSaves, MaxProbes} \subseteq Nat
  /\ Trimmed \in [CustomUrls -> CustomUrls]

Blank == "blank"             \* a field that is empty once trimmed
Public == "public"           \* the field's entry of DEFAULT_RPC

Urls == CustomUrls \cup {Blank, Public}

DEFAULT_RPC == [k \in RpcFields |-> Public]

VARIABLES
  rpcOpen,
  rpcValues,       \* values
  rpcStatus,       \* status
  saves,           \* the calls of handleSave: the values captured and the verdicts
  probes,          \* the pings of the Test buttons still awaited
  probesMade,
  rpcStore,        \* localStorage: the saved URLs, or <<>> for none
  evmUrls,         \* the custom URLs wagmiConfig was built with
  reachable        \* field and base of a URL that answered a ping

rpcVars == <<rpcOpen, rpcValues, rpcStatus, saves, probes, probesMade, rpcStore, evmUrls, reachable>>

CustomRpcInit ==
  /\ rpcOpen = FALSE /\ rpcValues = DEFAULT_RPC /\ rpcStatus = [k \in RpcFields |-> "idle"]
  /\ saves = <<>> /\ probes = {} /\ probesMade = 0
  /\ rpcStore = <<>> /\ evmUrls = DEFAULT_RPC
  /\ reachable = RpcFields \X {Public}

\* What is pinged: the URL without its trailing slashes.
normalizeBaseUrl(url) == IF url \in {Blank, Public} THEN url ELSE Trimmed[url]

-----------------------------------------------------------------------------
(* The store.                                                              *)

readStoredRpc == IF rpcStore = <<>> THEN DEFAULT_RPC ELSE rpcStore

\* A blank URL keeps the one stored.
writeStoredRpc(urls) == [k \in RpcFields |-> IF urls[k] = Blank THEN readStoredRpc[k] ELSE urls[k]]

-----------------------------------------------------------------------------
(* The dialog.                                                             *)

OpenDialog ==
  /\ ~rpcOpen /\ rpcOpen' = TRUE
  /\ rpcValues' = readStoredRpc /\ rpcStatus' = [k \in RpcFields |-> "idle"]
  /\ UNCHANGED <<saves, probes, probesMade, rpcStore, evmUrls, reachable>>

CloseDialog ==
  /\ rpcOpen /\ rpcOpen' = FALSE
  /\ UNCHANGED <<rpcValues, rpcStatus, saves, probes, probesMade, rpcStore, evmUrls, reachable>>

setField(k, url) ==
  /\ rpcOpen /\ url # rpcValues[k]
  /\ rpcValues' = [rpcValues EXCEPT ![k] = url]
  /\ rpcStatus' = [rpcStatus EXCEPT ![k] = "idle"]
  /\ UNCHANGED <<rpcOpen, saves, probes, probesMade, rpcStore, evmUrls, reachable>>

\* The values only; nothing is stored before the next save.
handleReset ==
  /\ rpcOpen
  /\ rpcValues' = DEFAULT_RPC /\ rpcStatus' = [k \in RpcFields |-> "idle"]
  /\ UNCHANGED <<rpcOpen, saves, probes, probesMade, rpcStore, evmUrls, reachable>>

-----------------------------------------------------------------------------
(* Tests and saves.                                                        *)

\* testField up to its ping: a blank URL fails at once.
StatusOnTest(url) == IF url = Blank THEN "error" ELSE "testing"

TestField(k) ==
  /\ rpcOpen /\ rpcStatus[k] # "testing" /\ probesMade < MaxProbes
  /\ probesMade' = probesMade + 1
  /\ rpcStatus' = [rpcStatus EXCEPT ![k] = StatusOnTest(rpcValues[k])]
  /\ probes' = IF rpcValues[k] = Blank THEN probes ELSE probes \cup {<<k, rpcValues[k]>>}
  /\ UNCHANGED <<rpcOpen, rpcValues, saves, rpcStore, evmUrls, reachable>>

\* What the endpoint says; a public node is taken to answer.
Answers(url) == IF url = Public THEN {TRUE} ELSE BOOLEAN

Heard(k, url, ok) ==
  /\ rpcStatus' = [rpcStatus EXCEPT ![k] = IF ok THEN "ok" ELSE "error"]
  /\ reachable' = IF ok THEN reachable \cup {<<k, normalizeBaseUrl(url)>>} ELSE reachable

ProbeAnswered(p) ==
  /\ p \in probes /\ probes' = probes \ {p}
  /\ \E ok \in Answers(p[2]) : Heard(p[1], p[2], ok)
  /\ UNCHANGED <<rpcOpen, rpcValues, saves, probesMade, rpcStore, evmUrls>>

\* handleSave up to its awaits: it and its tests keep the values of the click.
handleSave ==
  /\ rpcOpen /\ Len(saves) < MaxSaves
  /\ saves' = Append(saves,
       [urls |-> rpcValues,
        verdict |-> [k \in RpcFields |-> IF rpcValues[k] = Blank THEN "bad" ELSE "waiting"]])
  /\ rpcStatus' = [k \in RpcFields |-> StatusOnTest(rpcValues[k])]
  /\ UNCHANGED <<rpcOpen, rpcValues, probes, probesMade, rpcStore, evmUrls, reachable>>

SavedValues(i) == saves[i].urls

\* One of the pings of a save; after the last, all of them good, the URLs are
\* stored, the provider rebuilds its configuration and the dialog is closed.
SaveAnswered(i, k) ==
  /\ saves[i].verdict[k] = "waiting"
  /\ \E ok \in Answers(saves[i].urls[k]) :
       LET verdict == [saves[i].verdict EXCEPT ![k] = IF ok THEN "ok" ELSE "bad"] IN
       /\ Heard(k, saves[i].urls[k], ok)
       /\ saves' = [saves EXCEPT ![i].verdict = verdict]
       /\ IF \A j \in RpcFields : verdict[j] = "ok"
            THEN /\ rpcStore' = writeStoredRpc(SavedValues(i))
                 /\ evmUrls' = rpcStore' /\ rpcOpen' = FALSE
            ELSE UNCHANGED <<rpcStore, evmUrls, rpcOpen>>
  /\ UNCHANGED <<rpcValues, probes, probesMade>>

\* The page is loaded again: every callback is gone and the configuration is
\* built from the store.
ReloadPage ==
  /\ rpcOpen' = FALSE /\ rpcValues' = DEFAULT_RPC /\ rpcStatus' = [k \in RpcFields |-> "idle"]
  /\ saves' = [i \in DOMAIN saves |-> [saves[i] EXCEPT !.verdict = [k \in RpcFields |-> "bad"]]]
  /\ probes' = {}
  /\ evmUrls' = readStoredRpc
  /\ UNCHANGED <<probesMade, rpcStore, reachable>>

CustomRpcNext ==
  \/ OpenDialog \/ CloseDialog \/ handleReset \/ handleSave \/ ReloadPage
  \/ \E k \in RpcFields : TestField(k) \/ \E url \in Urls : setField(k, url)
  \/ \E p \in probes : ProbeAnswered(p)
  \/ \E i \in DOMAIN saves, k \in RpcFields : SaveAnswered(i, k)

CustomRpcSpec == CustomRpcInit /\ [][CustomRpcNext]_rpcVars

-----------------------------------------------------------------------------

\* What is stored, and what the wallet's EVM client was built with, answered the
\* ping of its own field, however the fields were edited and the dialog closed,
\* reopened and saved again while the pings were awaited.  The ping is of the URL
\* without its trailing slashes (CustomRpcModal.jsx:89-100, customRpc.js:49-75).
InUseWasReached ==
  \A k \in RpcFields :
    {<<k, normalizeBaseUrl(readStoredRpc[k])>>, <<k, normalizeBaseUrl(evmUrls[k])>>} \subseteq reachable

=============================================================================
