-------------------------------- MODULE Amounts --------------------------------
(***************************************************************************)
(* Token amounts: backend/src/amount.ts (amounts of an asset in minor      *)
(* units) and lib/safe-amount.ts (ExactAmount and pro rata shares), as one *)
(* purse that is filled from payloads and typed texts, shown, and shared   *)
(* out.  The formats of lib/formatting.ts, which go through numbers, are   *)
(* in DepositDialogs, which types what they show.                          *)
(*                                                                         *)
(* A decimal text is its sign, its whole part, and its fraction as a       *)
(* number of a given number of places.                                     *)
(***************************************************************************)
EXTENDS Integers, FiniteSets, FiniteSetsExt

CONSTANTS
  Radix,            \* 10
  Decimals,         \* of the asset
  DecimalTexts,     \* texts that may be typed
  Payloads,         \* action payloads
  AssetCodes,
  Scalars,          \* factors, in tenths
  Members, Parts,   \* of a distribution, and their possible stakes
  MaxRaw            \* bound on the magnitude of an amount

ASSUME AmountsAssumption ==
  /\ Radix \in Nat /\ Radix > 1 /\ Decimals \in Nat
  /\ DecimalTexts \subseteq [neg : BOOLEAN, whole : Nat, fraction : Nat, places : Nat]
  /\ \A p \in Payloads : p.raw \in Int
  /\ IsFiniteSet(Members) /\ Parts \subseteq Nat /\ MaxRaw \in Nat /\ Scalars \subseteq Nat

VARIABLES
  purse,        \* the amount held, in minor units
  purseAsset,   \* the asset it was opened for
  refusal,      \* the error of the last operation, or "none"
  stakes,       \* member -> part of the distribution that runs
  given         \* member -> share paid, a partial function

amountVars == <<purse, purseAsset, refusal, stakes, given>>

\* The powers of the radix.
Power[n \in Nat] == IF n = 0 THEN 1 ELSE Radix * Power[n - 1]

Magnitude(v) == IF v < 0 THEN 0 - v ELSE v

\* BigInt division drops the fraction.
BigIntDiv(a, b) ==
  LET q == Magnitude(a) \div Magnitude(b) IN IF (a < 0) = (b < 0) THEN q ELSE 0 - q

-----------------------------------------------------------------------------
(* Texts.                                                                    *)

\* ExactAmount.fromHuman refuses a fraction that is too long, and pads it.
TooManyDigits(t) == t.places > Decimals

fromHuman(t) ==
  LET raw == t.whole * Power[Decimals] + t.fraction * Power[Decimals - t.places]
  IN  IF t.neg THEN 0 - raw ELSE raw

\* toDisplay and toDisplayString: all the decimals of the asset.
toDisplay(v) ==
  [neg |-> v < 0, whole |-> Magnitude(v) \div Power[Decimals],
   fraction |-> Magnitude(v) % Power[Decimals], places |-> Decimals]

-----------------------------------------------------------------------------
(* Shares.                                                                   *)

proRataShare(total, part, whole) ==
  IF whole <= 0 \/ part < 0 THEN 0 ELSE BigIntDiv(total * part, whole)

Whole == MapThenSumSet(LAMBDA m : stakes[m], Members)

-----------------------------------------------------------------------------
(* Operations.                                                               *)

AmountInit ==
  /\ purse = 0 /\ purseAsset \in AssetCodes /\ refusal = "none"
  /\ stakes \in [Members -> Parts] /\ given = [m \in {} |-> 0]

InPurse(v) ==
  /\ Magnitude(v) <= MaxRaw
  /\ purse' = v /\ refusal' = "none" /\ given' = [m \in {} |-> 0]
  /\ UNCHANGED <<purseAsset, stakes>>

Refused(why) == refusal' = why /\ UNCHANGED <<purse, purseAsset, stakes, given>>

\* fromPayload: the checks in their order.
PayloadError(p) ==
  CASE p.kind = "missing" -> "Missing action payload"
    [] p.kind = "object" -> "amount must be a string or number"
    [] p.kind = "blank" -> "amount is an empty string"
    [] p.kind = "fraction" -> "amount must be an integer"
    [] OTHER -> IF p.raw < 0 THEN "amount must not be negative"
                ELSE IF p.asset = "blank" THEN "poolAssetCode is required" ELSE "none"

validateMatchingAsset(p) == p.asset = purseAsset

\* add (or subtract) of an amount read from a payload.
AddPayload(p, sign) ==
  \/ PayloadError(p) # "none" /\ Refused(PayloadError(p))
  \/ PayloadError(p) = "none" /\ ~validateMatchingAsset(p) /\ Refused("mixed assets")
  \/ PayloadError(p) = "none" /\ validateMatchingAsset(p) /\ InPurse(purse + sign * p.raw)

AddTyped(t) ==
  \/ TooManyDigits(t) /\ Refused("too many digits")
  \/ ~TooManyDigits(t) /\ InPurse(purse + fromHuman(t))

RoundedScalar(s) == (s + 5) \div 10

mulScalar(s) == InPurse(purse * RoundedScalar(s))

\* A factor below one half passes the test for zero and is rounded to zero.
divScalar(s) ==
  \/ s = 0 /\ Refused("Division by zero")
  \/ s # 0 /\ RoundedScalar(s) = 0 /\ Refused("RangeError")
  \/ RoundedScalar(s) # 0 /\ InPurse(BigIntDiv(purse, RoundedScalar(s)))

\* One member of the distribution is paid its share of the purse.
PayShare(m) ==
  /\ purse >= 0 /\ m \notin DOMAIN given
  /\ given' = [x \in DOMAIN given \cup {m} |->
                 IF x = m THEN proRataShare(purse, stakes[m], Whole) ELSE given[x]]
  /\ UNCHANGED <<purse, purseAsset, refusal, stakes>>

AmountNext ==
  \/ \E p \in Payloads, sign \in {1, -1} : AddPayload(p, sign)
  \/ \E t \in DecimalTexts : AddTyped(t)
  \/ \E s \in Scalars : mulScalar(s) \/ divScalar(s)
  \/ \E m \in Members : PayShare(m)

AmountSpec == AmountInit /\ [][AmountNext]_amountVars

-----------------------------------------------------------------------------
(* Properties.                                                               *)

\* What is displayed is read back as the same amount, whatever sums, differences
\* and divisions led to it, negative amounts included (ExactAmount).
DisplayReadsBack == fromHuman(toDisplay(purse)) = purse

\* "never over-distributing" (proRataShare): the shares paid fit in the purse
\* whatever the stakes and the order, and what is left when all are paid is less
\* than one minor unit for each member.
SharesFit ==
  LET paid == MapThenSumSet(LAMBDA m : given[m], DOMAIN given) IN
  /\ paid <= Magnitude(purse)
  /\ DOMAIN given = Members /\ Whole > 0 => purse - paid < Cardinality(Members)
=============================================================================
