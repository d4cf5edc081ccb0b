------------------------------ MODULE DrawProofs ------------------------------
(***************************************************************************)
(* Draw proofs: how they are generated from a confirmed draw and the       *)
(* chain's randomness evidence (services/drawProofService.ts), what they   *)
(* hash and how they are verified (lib/draw-proof.ts,                      *)
(* lib/draw-proof-verifier.ts), and what the prize page shows of them      *)
(* (DrawProofCard, DrawProofDetail).                                       *)
(*                                                                         *)
(* A hash is the value it is taken of, tagged.  The service is modelled    *)
(* with an RPC client, as its tests construct it; app.ts gives it none.    *)
(***************************************************************************)
EXTENDS FiniteSets, Naturals

CONSTANTS
  Generators,    \* concurrent calls of generateProof
  DrawRounds,    \* rounds of the one contract considered
  RevealedSeeds, \* possible sets of randomness_reveal events
  MaxProofRuns   \* bound on calls of generateProof

DrawLedger == 2       \* the ledger of every draw, which its payload may name
PayoutLedger == 4     \* where the payout transaction really is
Clock == {100, 200}   \* instants in milliseconds, past every ledger number

ASSUME ProofAssumption ==
  /\ \A E \in RevealedSeeds : \A e \in E :
       e.round \in DrawRounds /\ e.commitAt \in Nat /\ e.matches \in BOOLEAN
  /\ MaxProofRuns \in Nat

VARIABLES
  reveals,    \* the contract's randomness_reveal events
  named,      \* rounds whose payload has a draw_ledger
  drawStatus, \* round -> status of its select_winner action
  proofs,     \* draw_proof rows
  gen,        \* generator -> where it is and what it has read
  proofRuns,  \* calls so far
  card,       \* the card: the row it shows, its local status, the flag it was fetched with
  checks      \* local checks under way: the row and whether the effect still lives

proofVars == <<reveals, named, drawStatus, proofs, gen, proofRuns, card, checks>>

sha256Hex(x) == <<"sha", x>>

-----------------------------------------------------------------------------
(* The document.                                                             *)
computeParticipantsHash(parts) == sha256Hex(parts)
computeWinnerProofHash(round, seedHash, partsHash) == sha256Hex(<<round, "winner", seedHash, partsHash>>)

\* What the audit hash covers; the frozen principal is not part of it.
buildDrawAuditSnapshot(d) == <<d.round, d.partsHash, d.seedHash, d.commitment, d.commitAt, d.drawnAt, d.payoutAt>>

UnsignedProof(round, ledger, parts, snapshot, payoutAt, e) ==
  LET seed == <<"seed", e.round>> IN
  [version |-> "1.1.0", round |-> round, seed |-> seed, seedHash |-> sha256Hex(seed),
   commitment |-> sha256Hex(IF e.matches THEN seed ELSE <<"another seed">>),
   commitAt |-> e.commitAt, drawnAt |-> ledger, payoutAt |-> payoutAt,
   snapshot |-> snapshot, partsHash |-> computeParticipantsHash(parts),
   winnerHash |-> computeWinnerProofHash(round, sha256Hex(seed), computeParticipantsHash(parts))]

\* Without a signing secret the document carries no signature.
assembleDrawProof(round, ledger, parts, snapshot, payoutAt, e) ==
  LET d == UnsignedProof(round, ledger, parts, snapshot, payoutAt, e) IN
  [body |-> d, audit |-> buildDrawAuditSnapshot(d), signature |-> "none"]

\* A row of version 1.0.0, signed with its own hash.
LegacyProof(round, ledger) ==
  LET d == [UnsignedProof(round, ledger, {"a"}, "none", PayoutLedger, [round |-> round, commitAt |-> 1, matches |-> TRUE])
              EXCEPT !.version = "1.0.0"] IN
  [body |-> d, audit |-> buildDrawAuditSnapshot(d), signature |-> sha256Hex(d)]

Field(name, status) == [name |-> name, status |-> status]
Check(name, holds) == Field(name, IF holds THEN "pass" ELSE "fail")

document_integrity(p) ==
  IF p.signature = "none" \/ p.body.version = "1.1.0" THEN Field("document_integrity", "unverified")
  ELSE Check("document_integrity", p.signature = sha256Hex(p.body))

randomness_commitment(d) ==
  Check("randomness_commitment", sha256Hex(d.seed) = d.commitment /\ d.commitAt <= d.drawnAt)

verifyProofIntegrity(p) ==
  { document_integrity(p),
    Check("winner_proof_hash", p.body.winnerHash = computeWinnerProofHash(p.body.round, p.body.seedHash, p.body.partsHash)),
    Check("audit_snapshot_hash", p.audit = buildDrawAuditSnapshot(p.body)),
    Check("seed_hash", p.body.seedHash = sha256Hex(p.body.seed)),
    randomness_commitment(p.body) }

Passed(fields) == \A f \in fields : f.status = "pass"

-----------------------------------------------------------------------------
(* What a client checks on chain, through an RPC client that answers or not. *)
Asked(rpc, name, holds) == IF rpc = "up" THEN Check(name, holds) ELSE Field(name, "unverified")

\* A ledger that does not exist is an RPC error like any other.
verifySnapshotLedger(p, rpc) == Asked(IF p.body.drawnAt \in Clock THEN "no" ELSE rpc, "snapshot_ledger", TRUE)
verifyPayoutTransaction(p, rpc) == Asked(rpc, "payout_tx", p.body.payoutAt = PayoutLedger)
verifyRandomnessReveal(p, rpc) == Asked(rpc, "randomness_reveal", \E e \in reveals : <<"seed", e.round>> = p.body.seed)
verifyRoundSnapshot(p, rpc) == Asked(IF p.body.snapshot = "none" THEN "no" ELSE rpc, "round_snapshot", TRUE)

ClientFields(p, rpc) ==
  verifyProofIntegrity(p) \cup { verifySnapshotLedger(p, rpc), verifyPayoutTransaction(p, rpc),
                                 verifyRandomnessReveal(p, rpc), verifyRoundSnapshot(p, rpc) }

verifyDrawProofClient(p, rpc) ==
  LET fields == ClientFields(p, rpc) IN
  /\ \A f \in fields : f.status # "fail"
  /\ Cardinality({f \in fields : f.status = "pass"}) >= 3
  /\ Field("randomness_reveal", "pass") \in fields

\* The verdict on a reward entry of a round won; a proof of another round is tampered with.
reconcileRewardEntry(p, round) ==
  LET fields == verifyProofIntegrity(p) IN
  IF p.body.round # round \/ \E f \in fields : f.status = "fail" THEN "tampered"
  ELSE IF Passed(fields) THEN "verified" ELSE "unverified"

-----------------------------------------------------------------------------
NoCall == [pc |-> "idle", round |-> 0, ledger |-> 0, parts |-> {}, snapshot |-> "none", payoutAt |-> 0, evidence |-> {}]
NoCard == [row |-> {}, status |-> "verifying", flag |-> FALSE]

\* payload.draw_ledger or, without it, when the action was submitted or read.
DrawLedgers(r) == IF r \in named THEN {DrawLedger} ELSE Clock

ProofsInit ==
  /\ reveals \in RevealedSeeds
  /\ named \in SUBSET DrawRounds
  /\ drawStatus = [r \in DrawRounds |-> "submitted"]
  /\ proofs \in {{}} \cup UNION {{{[proof |-> LegacyProof(r, l), verified |-> FALSE]} : l \in DrawLedgers(r)} : r \in DrawRounds}
  /\ gen = [g \in Generators |-> NoCall]
  /\ proofRuns = 0
  /\ card = NoCard /\ checks = {}

ProofsOf(r) == {row \in proofs : row.proof.body.round = r}

ConfirmedDraw(r) == drawStatus[r] = "confirmed"

Reads(g, r) ==
  \E ledger \in DrawLedgers(r) :
    gen' = [gen EXCEPT ![g] = [NoCall EXCEPT !.pc = "fetch", !.round = r, !.ledger = ledger]]

\* The action is read, and the call goes on only for a confirmed draw.
CallGenerate(g, r) ==
  /\ gen[g].pc = "idle" /\ proofRuns < MaxProofRuns
  /\ ConfirmedDraw(r)
  /\ Reads(g, r)
  /\ proofRuns' = proofRuns + 1
  /\ UNCHANGED <<reveals, named, proofs, card, checks>>

\* app.ts: reconciling the event confirms the action and calls generateProof; or it fails.
onActionConfirmed(g, r) ==
  /\ drawStatus[r] = "submitted"
  /\ \/ /\ drawStatus' = [drawStatus EXCEPT ![r] = "confirmed"]
        /\ gen[g].pc = "idle" /\ proofRuns < MaxProofRuns
        /\ Reads(g, r)
        /\ proofRuns' = proofRuns + 1
     \/ drawStatus' = [drawStatus EXCEPT ![r] = "failed"] /\ UNCHANGED <<gen, proofRuns>>
  /\ UNCHANGED <<reveals, named, proofs, card, checks>>

\* It looks for any proof of the round, whatever its ledger.
retroactiveGenerateAll(g, r) ==
  /\ ProofsOf(r) = {}
  /\ CallGenerate(g, r)
  /\ UNCHANGED drawStatus

\* A read that fails leaves its default: no participants, no snapshot, the guessed payout ledger.
ReadOutcomes(ledger) == [parts : {{}, {"a"}}, snapshot : {"none", "frozen"}, payoutAt : {ledger + 1, PayoutLedger}]

fetchParticipants(g) ==
  /\ gen[g].pc = "fetch"
  /\ \E read \in ReadOutcomes(gen[g].ledger) :
       gen' = [gen EXCEPT ![g] = [@ EXCEPT !.pc = "evidence", !.parts = read.parts,
                                             !.snapshot = read.snapshot, !.payoutAt = read.payoutAt]]
  /\ UNCHANGED <<reveals, named, drawStatus, proofs, proofRuns, card, checks>>

Usable_Late(e, r, ledger) == e.round = r

\* An instant is later than every commitment.
Usable(e, r, ledger) == e.round = r /\ e.commitAt <= ledger

\* No evidence, or no answer, and nothing is generated.
fetchRandomnessEvidence(g) ==
  /\ gen[g].pc = "evidence"
  /\ \/ \E e \in reveals : /\ Usable(e, gen[g].round, gen[g].ledger)
                           /\ gen' = [gen EXCEPT ![g] = [@ EXCEPT !.pc = "find", !.evidence = {e}]]
     \/ gen' = [gen EXCEPT ![g] = NoCall]
  /\ UNCHANGED <<reveals, named, drawStatus, proofs, proofRuns, card, checks>>

\* The unique index on drawId, which stands for the contract, round and ledger.
drawIdFree(r, ledger) == \A row \in ProofsOf(r) : row.proof.body.drawnAt # ledger

findExisting(g) ==
  /\ gen[g].pc = "find"
  /\ gen' = [gen EXCEPT ![g] = IF drawIdFree(gen[g].round, gen[g].ledger) THEN [@ EXCEPT !.pc = "create"] ELSE NoCall]
  /\ UNCHANGED <<reveals, named, drawStatus, proofs, proofRuns, card, checks>>

createProof(g) ==
  /\ gen[g].pc = "create"
  /\ proofs' = IF drawIdFree(gen[g].round, gen[g].ledger)
               THEN proofs \cup {[proof |-> assembleDrawProof(gen[g].round, gen[g].ledger, gen[g].parts, gen[g].snapshot,
                                                              gen[g].payoutAt, CHOOSE e \in gen[g].evidence : TRUE),
                                  verified |-> FALSE]}
               ELSE proofs
  /\ gen' = [gen EXCEPT ![g] = NoCall]
  /\ UNCHANGED <<reveals, named, drawStatus, proofRuns, card, checks>>

\* POST /api/draw-proofs/:drawId/verify; the document never changes.
verifyProof(row) ==
  /\ proofs' = (proofs \ {row}) \cup {[row EXCEPT !.verified = Passed(verifyProofIntegrity(row.proof))]}
  /\ proofs' # proofs
  /\ UNCHANGED <<reveals, named, drawStatus, gen, proofRuns, card, checks>>

-----------------------------------------------------------------------------
(* The page.                                                                 *)
StillLive(c) == c.live

\* Another proof is given to the card: the effect's cleanup cancels the check under way.
DrawProofCard(row) ==
  /\ card.row # {row.proof} /\ Cardinality(checks) < 2
  /\ card' = [row |-> {row.proof}, status |-> "verifying", flag |-> row.verified]
  /\ checks' = {[c EXCEPT !.live = FALSE] : c \in checks} \cup {[proof |-> row.proof, live |-> TRUE]}
  /\ UNCHANGED <<reveals, named, drawStatus, proofs, gen, proofRuns>>

\* The check resolves, or throws; the outcome is dropped when cancelled.
CardCheckEnds(c) ==
  /\ checks' = checks \ {c}
  /\ \E status \in {IF Passed(verifyProofIntegrity(c.proof)) THEN "verified" ELSE "failed", "unverified"} :
       card' = IF StillLive(c) THEN [card EXCEPT !.status = status] ELSE card
  /\ UNCHANGED <<reveals, named, drawStatus, proofs, gen, proofRuns>>

badgeStatus ==
  IF card.status = "verifying" THEN "verifying"
  ELSE IF card.flag /\ card.status = "verified" THEN "verified" ELSE "failed"

\* "Verify Independently" in the panel, which keeps nothing when it closes.
DrawProofDetail(row, rpc) == IF verifyDrawProofClient(row.proof, rpc) THEN "verified" ELSE "failed"

ProofsNext ==
  \/ \E g \in Generators :
       \/ \E r \in DrawRounds : onActionConfirmed(g, r) \/ retroactiveGenerateAll(g, r)
       \/ fetchParticipants(g) \/ fetchRandomnessEvidence(g) \/ findExisting(g) \/ createProof(g)
  \/ \E row \in proofs : verifyProof(row) \/ DrawProofCard(row)
  \/ \E c \in checks : CardCheckEnds(c)

ProofsSpec == ProofsInit /\ [][ProofsNext]_proofVars

-----------------------------------------------------------------------------
(* Every proof of the current format is of a confirmed draw and rests on a   *)
(* seed the chain revealed for that round, whatever the RPC answered; a draw  *)
(* whose payload names its ledger has one proof although several calls race   *)
(* to create it, and its seed was committed no later than that ledger.  A     *)
(* draw without one has a proof for each instant it was read with, and no     *)
(* commitment is too late for it.                                             *)
ProofsAreGrounded ==
  /\ \A row \in proofs :
       LET d == row.proof.body IN
       d.version = "1.1.0" =>
         /\ drawStatus[d.round] = "confirmed"
         /\ \E e \in reveals : /\ e.round = d.round /\ e.commitAt = d.commitAt
                               /\ d.round \in named => e.commitAt <= DrawLedger
  /\ \A a, b \in proofs :
       /\ a.proof.body.round = b.proof.body.round
       /\ a.proof.body.drawnAt = b.proof.body.drawnAt \/ a.proof.body.round \in named
       => a = b

(* A proof the browser calls verified has a seed that matches its commitment *)
(* and names the ledger the prize was really paid in; guessed defaults of a   *)
(* failed read never pass.  That the draw was in a ledger at all is not part  *)
(* of it: a client lets a snapshot ledger it cannot find pass unverified.     *)
VerifiedIsSound ==
  \A row \in proofs, rpc \in {"up", "down"} : DrawProofDetail(row, rpc) = "verified" =>
    row.proof.body.payoutAt = PayoutLedger /\ row.proof.body.commitment = sha256Hex(row.proof.body.seed)

(* The card speaks of the proof it shows: the outcome of a check started for *)
(* an earlier proof is never shown, and no badge says verified of a proof a   *)
(* reward entry would not call verified.                                      *)
BadgeMatchesProof ==
  \A p \in card.row :
    /\ card.status \in {"verified", "failed"} => (card.status = "verified") = Passed(verifyProofIntegrity(p))
    /\ badgeStatus = "verified" => reconcileRewardEntry(p, p.body.round) = "verified"

\* What is stored, verified and shown of a draw follows from what the chain
\* revealed before it.
ProofsSound ==
  /\ ProofsAreGrounded
  /\ VerifiedIsSound
  /\ BadgeMatchesProof
=============================================================================
