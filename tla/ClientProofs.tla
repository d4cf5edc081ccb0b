----------------------------- MODULE ClientProofs -----------------------------
(***************************************************************************)
(* The machines of the web client, each for any constants: what leaves a   *)
(* form, what the client says of a transaction, what it shows, and what    *)
(* stays decided.  The theorems about the properties of MCClient combine   *)
(* those of the machines, and the last one takes them as MCSpec composes   *)
(* them.                                                                   *)
(***************************************************************************)
EXTENDS MCClient, SequenceTheorems, SumProofs

-----------------------------------------------------------------------------
(* The administrators' pages.                                                *)

\* Cards keep their shape, and drafts are numbers.
AdminTypes ==
    /\ card \in [status : {"active", "expired", "cancelled"}, currentSignatures : Nat, executed : BOOLEAN,
                 isHighRisk : BOOLEAN, treeValid : BOOLEAN]
    /\ clock \in Nat
    /\ drafts \in [Parameters -> Int]
    /\ overrideBlocked \in BOOLEAN

\* The pages keep the types.
LEMMA AdminTypesStep == AdminTypes /\ [AdminNext]_adminVars => AdminTypes'
<1> SUFFICES ASSUME AdminTypes, [AdminNext]_adminVars PROVE AdminTypes'
  OBVIOUS
<1> USE AdminAssumption
<1>1. CASE handleApprove
  BY <1>1 DEF AdminTypes, handleApprove
<1>2. CASE handleExecute
  <2>1. TRUE \in BOOLEAN
    OBVIOUS
  <2>2. QED
    BY <1>2, <2>1 DEF AdminTypes, handleExecute
<1>3. CASE handleCancelProposal
  BY <1>3 DEF AdminTypes, handleCancelProposal
<1>4. CASE ConnectWallet
  BY <1>4 DEF AdminTypes, ConnectWallet
<1>5. CASE TimelockCountdown
  BY <1>5 DEF AdminTypes, TimelockCountdown
<1>6. CASE addProposal
  BY <1>6 DEF AdminTypes, addProposal
<1>7. CASE setOverrideBlocked
  <2>1. (~ overrideBlocked) \in BOOLEAN
    OBVIOUS
  <2>2. QED
    BY <1>7, <2>1 DEF AdminTypes, setOverrideBlocked
<1>8. CASE verifyHealth
  BY <1>8 DEF AdminTypes, verifyHealth
<1>9. CASE UNCHANGED adminVars
  BY <1>9 DEF AdminTypes, adminVars
<1>10. QED
  BY <1>1, <1>2, <1>3, <1>4, <1>5, <1>6, <1>7, <1>8, <1>9 DEF AdminNext

\* The pages start with them.
LEMMA AdminTypesInit == AdminInit => AdminTypes
<1> SUFFICES ASSUME AdminInit PROVE AdminTypes
  OBVIOUS
<1>1. card \in Cards \cup {NoCard}
  BY DEF AdminInit
<1>2. FALSE \in BOOLEAN
  OBVIOUS
<1>3. Cards \subseteq [status : {"active", "expired", "cancelled"}, currentSignatures : Nat, executed : BOOLEAN,
                       isHighRisk : BOOLEAN, treeValid : BOOLEAN]
  <2>1. SUFFICES ASSUME NEW c \in Cards
                 PROVE  c \in [status : {"active", "expired", "cancelled"}, currentSignatures : Nat,
                               executed : BOOLEAN, isHighRisk : BOOLEAN, treeValid : BOOLEAN]
    OBVIOUS
  <2>2. {0} \subseteq Nat /\ {FALSE} \subseteq BOOLEAN
        /\ {"active", "expired"} \subseteq {"active", "expired", "cancelled"}
    OBVIOUS
  <2>3. QED
    BY <2>1, <2>2, Zenon DEF Cards
<1>4. NoCard \in [status : {"active", "expired", "cancelled"}, currentSignatures : Nat, executed : BOOLEAN,
                  isHighRisk : BOOLEAN, treeValid : BOOLEAN]
  BY <1>2 DEF NoCard
<1>5. NoDraft \in Int
  BY DEF NoDraft
<1>6. drafts \in [Parameters -> Int]
  BY <1>5 DEF AdminInit
<1>7. clock \in Nat /\ overrideBlocked \in BOOLEAN
  BY <1>2 DEF AdminInit
<1>8. QED
  BY <1>1, <1>3, <1>4, <1>6, <1>7 DEF AdminTypes

LEMMA AdminTypesHold == AdminSpec => []AdminTypes
BY AdminTypesInit, AdminTypesStep, PTL DEF AdminSpec

\* What the preview says of a draft that leaves the bounds.
LEMMA BoundsAreTold == AdminTypes => UnblockedIsWithinBounds
<1> SUFFICES ASSUME AdminTypes, NEW p \in Drafted,
                    drafts[p] < ParamCatalog[p].min \/ drafts[p] > ParamCatalog[p].max
             PROVE  /\ diffPreview[p].needsConfirmation
                    /\ diffPreview[p].blocked \/ diffPreview[p].overridden
  BY DEF UnblockedIsWithinBounds
<1>1. p \in Parameters /\ drafts[p] \in Int /\ ParamCatalog[p].min \in Int /\ ParamCatalog[p].max \in Int
  BY AdminAssumption DEF AdminTypes, Drafted, Parameters
<1>2. ~ validateProposedParameter(p, drafts[p])
  BY <1>1 DEF validateProposedParameter
<1>3. Blocks(p, drafts[p])
  BY <1>2 DEF Blocks
<1>4. diffPreview[p] = simulateParameterChange(p, drafts[p])
  BY DEF diffPreview
<1>5. simulateParameterChange(p, drafts[p]).blocked = (Blocks(p, drafts[p]) /\ ~ overrideBlocked)
      /\ simulateParameterChange(p, drafts[p]).overridden = (Blocks(p, drafts[p]) /\ overrideBlocked)
  BY DEF simulateParameterChange
<1>6. simulateParameterChange(p, drafts[p]).needsConfirmation
        = (~ validateProposedParameter(p, drafts[p]) \/ (Blocks(p, drafts[p]) /\ ~ overrideBlocked)
           \/ relativeRisk(p, drafts[p]) \in {"medium", "high"})
  BY DEF simulateParameterChange
<1>7. QED
  BY <1>2, <1>3, <1>4, <1>5, <1>6, Zenon


-----------------------------------------------------------------------------
(* The deposit and withdrawal dialogs.                                       *)

\* A text that shows more than is read in it is one of the app's, with
\* separators.
TextHolds(text) ==
    /\ text \in [shown : Nat, read : Nat]
    /\ text.shown = text.read \/ (dialog = "app" /\ text.shown >= GroupTokens * Token /\ text.read < text.shown)

\* What a deposit in the kit waits for, and that what was checked is what is
\* there, or was edited meanwhile; a step back to the input allows to change it.
CheckedIsCurrent ==
    /\ TextHolds(amount) /\ limit \in Nat
    /\ checked.amount <= checked.limit /\ checked \in [amount : Nat, limit : Nat, edited : BOOLEAN]
    /\ checked.edited => dialog = "deposit"
    /\ refreshing = "continue" => dialog = "deposit" /\ step = "input"
    /\ step \in {"review", "broadcasting"} \/ refreshing = "continue" => amount.read = checked.amount \/ checked.edited

\* The quick amounts are amounts.
LEMMA QuickAmountFits == ASSUME NEW m \in Nat PROVE toFixed(m) \in Nat
<1>1. (2 * m + 10) \div (2 * 10) \in Nat
  OBVIOUS
<1>2. QED
  BY <1>1 DEF toFixed, Rounded

LEMMA ShareFits == ASSUME NEW m \in Nat, NEW pct \in {25, 50, 75, 100} PROVE (m * pct) \div 100 \in Nat
<1>1. m * pct \in Nat
  OBVIOUS
<1>2. QED
  BY <1>1

\* No more is read in a text with separators than it shows.
LEMMA TextsHold ==
    ASSUME NEW n \in Nat
    PROVE  TextHolds(Plain(n)) /\ (dialog = "app" => TextHolds(Grouped(n)))
<1>1. TextHolds(Plain(n))
  BY DEF TextHolds, Plain
<1>2. PICK t \in Nat \ {0} : t = Token
  BY DialogAssumption
<1>3. PICK g \in Nat \ {0} : g = GroupTokens
  BY DialogAssumption
<1>4. PICK u \in Nat \ {0} : u = g * t /\ t <= u
  <2>1. g * t \in Nat /\ t <= g * t /\ g * t # 0
    <3>1. PICK j \in Nat : g = j + 1
      <4>1. g - 1 \in Nat /\ g = (g - 1) + 1
        OBVIOUS
      <4>2. QED
        BY <4>1
    <3>2. g * t = j * t + t /\ j * t \in Nat
      BY <3>1
    <3>3. QED
      BY <3>2
  <2>2. QED
    BY <2>1
<1>5. PICK q \in Nat : q = n \div u /\ q * u <= n
  <2>1. n \div u \in Nat /\ (n \div u) * u <= n
    OBVIOUS
  <2>2. QED
    BY <2>1
<1>6. PICK r \in Nat : r = q * t /\ r <= n
  <2>1. PICK e \in Nat : u = t + e
    <3>1. u - t \in Nat /\ u = t + (u - t)
      BY <1>4
    <3>2. QED
      BY <3>1
  <2>2. q * u = q * t + q * e /\ q * t \in Nat /\ q * e \in Nat
    BY <2>1
  <2>3. QED
    BY <1>5, <2>2
<1>7. Grouped(n) = [shown |-> n, read |-> IF n < u THEN n ELSE r]
  BY <1>2, <1>3, <1>4, <1>5, <1>6 DEF Grouped
<1>8. dialog = "app" => TextHolds(Grouped(n))
  BY <1>2, <1>3, <1>4, <1>6, <1>7 DEF TextHolds
<1>9. QED
  BY <1>1, <1>8

\* The field is edited to a text of the dialog.
LEMMA EditHolds ==
    ASSUME CheckedIsCurrent, NEW text, TextHolds(text), EditTo(text), step = "input"
    PROVE  CheckedIsCurrent'
<1>1. /\ amount' = text /\ UNCHANGED <<dialog, step, limit, refreshing>>
      /\ checked' = [checked EXCEPT !.edited = @ \/ refreshing = "continue"]
  BY DEF EditTo
<1>2. PICK b \in BOOLEAN : b = (checked.edited \/ refreshing = "continue")
  OBVIOUS
<1>3. checked' = [checked EXCEPT !.edited = b]
  BY <1>1, <1>2
<1>4. /\ checked' \in [amount : Nat, limit : Nat, edited : BOOLEAN]
      /\ checked'.amount = checked.amount /\ checked'.limit = checked.limit /\ checked'.edited = b
  BY <1>3 DEF CheckedIsCurrent
<1>5. TextHolds(amount)'
  BY <1>1 DEF TextHolds
<1>6. QED
  BY <1>1, <1>2, <1>4, <1>5 DEF CheckedIsCurrent

LEMMA CheckedIsCurrentStep == CheckedIsCurrent /\ [DialogNext]_dialogVars => CheckedIsCurrent'
<1> SUFFICES ASSUME CheckedIsCurrent, [DialogNext]_dialogVars PROVE CheckedIsCurrent'
  OBVIOUS
<1>0. Amounts \subseteq Nat /\ Limits \subseteq Nat
  BY DialogAssumption
<1>1. CASE setAmount
  <2>1. step = "input" /\ \E a \in Amounts : EditTo(Plain(a)) \/ (dialog = "app" /\ EditTo(Grouped(a)))
    BY <1>1 DEF setAmount, Editable
  <2>2. QED
    BY <1>0, <2>1, TextsHold, EditHolds
<1>2. CASE handleQuickAmount
  <2>1. PICK pct \in {25, 50, 75, 100} : EditTo(Typed((limit * pct) \div 100))
    BY <1>2 DEF handleQuickAmount
  <2>2. PICK n \in Nat : n = toFixed((limit * pct) \div 100)
    BY ShareFits, QuickAmountFits DEF CheckedIsCurrent
  <2>3. TextHolds(Typed((limit * pct) \div 100))
    BY <2>2, TextsHold DEF Typed
  <2>4. QED
    BY <1>2, <2>1, <2>3, EditHolds DEF handleQuickAmount
<1> USE <1>0 DEF CheckedIsCurrent, TextHolds
<1>3. CASE LimitMoves
  BY <1>3 DEF LimitMoves
<1>4. CASE handleRefresh
  BY <1>4 DEF handleRefresh
<1>5. CASE handleContinue
  <2>1. PICK a \in Nat, l \in Nat : a = amount.read /\ l = limit /\ a <= l
    BY <1>5 DEF handleContinue, isValid
  <2>2. /\ checked' = [amount |-> a, limit |-> l, edited |-> FALSE]
        /\ UNCHANGED <<dialog, amount, limit>> /\ step = "input"
        /\ \/ dialog = "deposit" /\ refreshing' = "continue" /\ step' = step
           \/ dialog # "deposit" /\ step' = "review" /\ refreshing' = refreshing
    BY <1>5, <2>1 DEF handleContinue
  <2>3. QED
    BY <2>1, <2>2
<1>6. CASE ContinueRefreshed
  BY <1>6 DEF ContinueRefreshed
<1>7. CASE Back
  BY <1>7 DEF Back
<1>8. CASE handleConfirm
  BY <1>8 DEF handleConfirm
<1>9. CASE Broadcast
  BY <1>9 DEF Broadcast
<1>10. CASE onClose
  BY <1>10 DEF onClose, Plain
<1>11. CASE setNetworkKey
  BY <1>11 DEF setNetworkKey
<1>12. CASE \E l \in loads : loadFees(l)
  BY <1>12 DEF loadFees
<1>13. CASE UNCHANGED dialogVars
  BY <1>13 DEF dialogVars
<1>14. QED
  BY <1>1, <1>2, <1>3, <1>4, <1>5, <1>6, <1>7, <1>8, <1>9, <1>10, <1>11, <1>12, <1>13 DEF DialogNext

LEMMA CheckedIsCurrentHolds == DialogSpec => []CheckedIsCurrent
<1>1. ASSUME DialogInit PROVE CheckedIsCurrent
  <2>1. PICK n \in Nat : amount = Plain(n)
    <3>1. AppBalance \div 4 \in Nat
      BY DialogAssumption
    <3>2. QED
      BY <1>1, <3>1 DEF DialogInit
  <2>2. TextHolds(amount)
    BY <2>1, TextsHold
  <2>3. limit \in Nat
    BY <1>1, DialogAssumption DEF DialogInit
  <2>4. QED
    BY <1>1, <2>2, <2>3 DEF DialogInit, CheckedIsCurrent
<1>2. QED
  BY <1>1, CheckedIsCurrentStep, PTL DEF DialogSpec

\* What is reviewed and signed was checked, but for what the dialogs leave open.
LEMMA SignedIsChecked == CheckedIsCurrent => SignedWasChecked
BY DEF CheckedIsCurrent, TextHolds, SignedWasChecked

\* A quotient and a bound.
LEMMA QuotientBelow ==
    ASSUME NEW n \in Nat, NEW d \in Nat, d > 0, NEW k \in Nat
    PROVE  (n \div d < k) <=> (n < k * d)
<1>1. PICK q \in Int : q = n \div d
  OBVIOUS
<1>2. q * d <= n /\ n < q * d + d /\ q >= 0
  BY <1>1
<1>3. PICK e \in Int : e = q * d
  OBVIOUS
<1>4. ASSUME q < k PROVE n < k * d
  <2>1. PICK j \in Nat : k = q + 1 + j
    <3>1. k - q - 1 \in Nat /\ k = q + 1 + (k - q - 1)
      BY <1>4, <1>2
    <3>2. QED
      BY <3>1
  <2>2. k * d = q * d + d + j * d /\ j * d \in Nat
    BY <2>1
  <2>3. QED
    BY <2>2, <1>2, <1>3
<1>5. ASSUME n < k * d, k <= q PROVE FALSE
  <2>1. PICK j \in Nat : q = k + j
    <3>1. q - k \in Nat /\ q = k + (q - k)
      BY <1>5, <1>2
    <3>2. QED
      BY <3>1
  <2>2. q * d = k * d + j * d /\ j * d \in Nat /\ k * d \in Nat
    BY <2>1
  <2>3. QED
    BY <2>2, <1>2, <1>3, <1>5
<1>6. QED
  BY <1>1, <1>4, <1>5

LEMMA RoundedBelow ==
    ASSUME NEW n \in Nat, NEW d \in Nat, d > 0, NEW k \in Nat
    PROVE  Rounded(n, d) \in Int /\ (Rounded(n, d) < k <=> 2 * n + d < k * (2 * d))
<1>1. 2 * n + d \in Nat /\ 2 * d \in Nat /\ 2 * d > 0
  OBVIOUS
<1>2. PICK m \in Nat, b \in Nat : m = 2 * n + d /\ b = 2 * d /\ b > 0
  BY <1>1
<1>3. m \div b \in Int
  BY <1>2
<1>4. (m \div b < k) <=> (m < k * b)
  BY <1>2, QuotientBelow
<1>5. QED
  BY <1>2, <1>3, <1>4 DEF Rounded

\* A deposit raises idle liquidity by itself, and no idle liquidity is negative.
LEMMA IdleGrows ==
    ASSUME NEW p \in PreviewPools, NEW d \in Nat
    PROVE  PostIdle(p, 0) \in Nat /\ PostIdle(p, d) = PostIdle(p, 0) + 10000 * d
<1>1. p.tvl \in Nat /\ p.strategyBps \in Nat /\ p.idle \in Int
  BY DialogAssumption
<1>2. PICK x \in Int : x = p.tvl * 10000 - p.tvl * p.strategyBps
  BY <1>1
<1>3. QED
  BY <1>1, <1>2 DEF PostIdle, AtLeast0

\* With more in the pool the share in the strategy is no larger.
LEMMA ExposureFalls ==
    ASSUME NEW p \in PreviewPools, NEW d \in Nat, d > 0, ExposureBps(p, d) > p.maxStrategyBps
    PROVE  ExposureBps(p, 0) > p.maxStrategyBps
<1>1. p.tvl \in Nat /\ p.strategyBps \in Nat /\ p.maxStrategyBps \in Nat
  BY DialogAssumption
<1>2. PICK t \in Nat, s \in Nat, k \in Nat : t = p.tvl /\ s = p.strategyBps /\ k = p.maxStrategyBps + 1
  BY <1>1
<1>3. PICK e \in Nat, w \in Nat : e = t * s /\ w = t + d /\ w > 0
  BY <1>2
<1>4. ~(Rounded(e, w) < k)
  <2>1. ExposureBps(p, d) = Rounded(e, w)
    BY <1>2, <1>3 DEF ExposureBps
  <2>2. Rounded(e, w) \in Int
    BY <1>3, <1>2, RoundedBelow
  <2>3. QED
    BY <2>1, <2>2, <1>1, <1>2
<1>5. ~(2 * e + w < k * (2 * w))
  BY <1>4, <1>3, <1>2, RoundedBelow
<1>6. PICK u \in Nat, v \in Nat : u = k * t /\ v = k * d /\ k * (2 * w) = 2 * u + 2 * v
  <2>1. k * t \in Nat /\ k * d \in Nat /\ k * (2 * w) = 2 * (k * t) + 2 * (k * d)
    BY <1>2, <1>3
  <2>2. QED
    BY <2>1
<1>7. v >= d
  <2>1. PICK j \in Nat : k = j + 1
    <3>1. k - 1 \in Nat /\ k = (k - 1) + 1
      BY <1>1, <1>2
    <3>2. QED
      BY <3>1
  <2>2. v = j * d + d /\ j * d \in Nat
    BY <2>1, <1>6
  <2>3. QED
    BY <2>2
<1>8. 2 * e + t >= 2 * u + d
  BY <1>5, <1>6, <1>7, <1>3, <1>2
<1>9. t > 0
  <2>1. ASSUME t = 0 PROVE FALSE
    <3>0. \A n \in Nat : n * 0 = 0 /\ 0 * n = 0
      OBVIOUS
    <3>1. e = 0 /\ u = 0
      BY <3>0, <2>1, <1>3, <1>6
    <3>2. QED
      BY <3>1, <1>8, <2>1
  <2>2. QED
    BY <2>1, <1>2
<1>10. k * (2 * t) = 2 * u
  BY <1>6, <1>2
<1>11. ~(Rounded(e, t) < k)
  <2>1. ~(2 * e + t < k * (2 * t))
    BY <1>8, <1>10, <1>3, <1>2, <1>6
  <2>2. QED
    BY <2>1, <1>9, <1>3, <1>2, RoundedBelow
<1>12. ExposureBps(p, 0) = Rounded(e, t)
  BY <1>2, <1>3, <1>9 DEF ExposureBps
<1>13. Rounded(e, t) \in Int
  BY <1>2, <1>3, <1>9, RoundedBelow
<1>14. QED
  BY <1>11, <1>12, <1>13, <1>1, <1>2

\* With more idle liquidity its share does not fall below a threshold of at most
\* the whole pool.
LEMMA IdleShareRises ==
    ASSUME NEW p \in PreviewPools, NEW d \in Nat, d > 0, IdleRatioBps(p, d) < p.minIdleBps
    PROVE  IdleRatioBps(p, 0) < p.minIdleBps /\ p.tvl > 0
<1>1. p.tvl \in Nat /\ p.minIdleBps \in Nat /\ p.minIdleBps <= 10000
  BY DialogAssumption
<1>2. PICK t \in Nat, k \in Nat : t = p.tvl /\ k = p.minIdleBps /\ k <= 10000
  BY <1>1
<1>3. PICK b \in Nat, w \in Nat : b = PostIdle(p, 0) /\ PostIdle(p, d) = b + 10000 * d /\ w = t + d /\ w > 0
  <2>1. PICK b \in Nat : b = PostIdle(p, 0) /\ PostIdle(p, d) = b + 10000 * d
    BY ONLY IdleGrows, p \in PreviewPools, d \in Nat
  <2>2. PICK w \in Nat : w = t + d /\ w > 0
    BY ONLY t \in Nat, d \in Nat, d > 0
  <2>3. QED
    BY ONLY <2>1, <2>2
<1>4. Rounded(b + 10000 * d, w) < k
  <2>1. IdleRatioBps(p, d) = Rounded(b + 10000 * d, w)
    BY <1>2, <1>3 DEF IdleRatioBps
  <2>2. QED
    BY <2>1, <1>2
<1>5. 2 * (b + 10000 * d) + w < k * (2 * w)
  <2>1. PICK x \in Nat : x = b + 10000 * d
    BY <1>3
  <2>2. Rounded(x, w) < k
    BY <2>1, <1>4
  <2>3. 2 * x + w < k * (2 * w)
    BY ONLY <2>2, <1>3, <1>2, RoundedBelow
  <2>4. QED
    BY <2>1, <2>3
<1>6. PICK u \in Nat, v \in Nat : u = k * t /\ v = k * d /\ k * (2 * w) = 2 * u + 2 * v
  <2>1. k * t \in Nat /\ k * d \in Nat /\ k * (2 * w) = 2 * (k * t) + 2 * (k * d)
    BY <1>2, <1>3
  <2>2. QED
    BY <2>1
<1>7. v <= 10000 * d
  <2>1. PICK j \in Nat : 10000 = k + j
    <3>1. 10000 - k \in Nat /\ 10000 = k + (10000 - k)
      BY <1>2
    <3>2. QED
      BY <3>1
  <2>2. 10000 * d = k * d + j * d /\ j * d \in Nat
    BY <2>1
  <2>3. QED
    BY <2>2, <1>6
<1>8. 2 * b + t < 2 * u
  BY <1>5, <1>6, <1>7, <1>3
<1>9. t > 0
  <2>1. ASSUME t = 0 PROVE FALSE
    <3>0. \A n \in Nat : n * 0 = 0
      OBVIOUS
    <3>1. u = 0
      BY <3>0, <2>1, <1>6
    <3>2. QED
      BY <3>1, <1>8, <1>3
  <2>2. QED
    BY <2>1, <1>2
<1>10. Rounded(b, t) < k
  <2>1. k * (2 * t) = 2 * u
    BY <1>6, <1>2
  <2>2. 2 * b + t < k * (2 * t)
    BY <2>1, <1>8
  <2>3. QED
    BY <2>2, <1>9, RoundedBelow
<1>11. IdleRatioBps(p, 0) = Rounded(b, t)
  BY <1>2, <1>3, <1>9 DEF IdleRatioBps
<1>12. QED
  BY <1>2, <1>9, <1>10, <1>11

\* The preview of a deposit warns of nothing the pool does not have already.
LEMMA DepositAddsNothing == CheckedIsCurrent => DepositNeverAddsWarning
<1> SUFFICES ASSUME CheckedIsCurrent, amount.read > 0, NEW p \in PreviewPools
             PROVE  warnings(p, amount.read) \subseteq warnings(p, 0)
                    /\ queuePressureLevel(p, amount.read) <= queuePressureLevel(p, 0)
  BY DEF DepositNeverAddsWarning
<1>1. PICK d \in Nat : d = amount.read /\ d > 0
  BY DEF CheckedIsCurrent, TextHolds
<1>2. p.tvl \in Nat /\ p.queued \in Nat
  BY DialogAssumption
<1>3. PICK b \in Nat, q \in Nat : b = PostIdle(p, 0) /\ PostIdle(p, d) = b + 10000 * d /\ q = p.queued
  <2>1. PICK b \in Nat : b = PostIdle(p, 0) /\ PostIdle(p, d) = b + 10000 * d
    BY ONLY IdleGrows, p \in PreviewPools, d \in Nat
  <2>2. QED
    BY ONLY <2>1, <1>2
<1>4. warnings(p, d) \subseteq warnings(p, 0)
  <2> SUFFICES ASSUME NEW w \in warnings(p, d) PROVE w \in warnings(p, 0)
    OBVIOUS
  <2>1. CASE w = "HIGH_STRATEGY_EXPOSURE"
    <3>1. ExposureBps(p, d) > p.maxStrategyBps
      BY <2>1 DEF warnings
    <3>2. ExposureBps(p, 0) > p.maxStrategyBps
      BY <3>1, <1>1, ExposureFalls
    <3>3. QED
      BY <3>2, <2>1 DEF warnings
  <2>2. CASE w = "LOW_IDLE_LIQUIDITY"
    <3>1. IdleRatioBps(p, d) < p.minIdleBps
      BY <2>2 DEF warnings
    <3>2. IdleRatioBps(p, 0) < p.minIdleBps /\ p.tvl > 0
      BY <3>1, <1>1, IdleShareRises
    <3>3. p.tvl + 0 > 0
      BY <3>2, <1>2
    <3>4. QED
      BY <3>2, <3>3, <2>2 DEF warnings
  <2>3. CASE w = "QUEUED_WITHDRAWAL_PRESSURE"
    <3>1. p.queued * 10000 > PostIdle(p, d)
      BY <2>3 DEF warnings
    <3>2. p.queued * 10000 > PostIdle(p, 0)
      BY <3>1, <1>3
    <3>3. QED
      BY <3>2, <2>3 DEF warnings
  <2>4. w \in {"HIGH_STRATEGY_EXPOSURE", "LOW_IDLE_LIQUIDITY", "QUEUED_WITHDRAWAL_PRESSURE"}
    BY DEF warnings
  <2>5. QED
    BY <2>1, <2>2, <2>3, <2>4
<1>5. queuePressureLevel(p, d) <= queuePressureLevel(p, 0)
  BY <1>3 DEF queuePressureLevel
<1>6. QED
  BY <1>1, <1>4, <1>5

-----------------------------------------------------------------------------
(* The form that creates a pool.                                             *)

DraftOf == [FormFields -> Nat \cup {NaN}]

\* What validateForm passes.
Sound(f) ==
    /\ DepositFloor <= f.minDeposit /\ f.minDeposit < f.maxDeposit
    /\ f.minDeposit <= DepositCeiling /\ f.maxDeposit <= CapCeiling
    /\ NaN < f.startDate /\ f.startDate < f.endDate
    /\ f.maxParticipants \in 1 .. MaxPlaces

\* What is reviewed or being signed was validated, which an edit undoes.
ReviewedIsValid ==
    /\ draft \in DraftOf
    /\ stage \in {"review", "submitting"} => validateForm(draft) = {}
    /\ signing => stage = "submitting"
    /\ \A a \in asked : a.draft \in DraftOf /\ validateForm(a.draft) = {}

LEMMA ValidIsSound == ASSUME NEW f \in DraftOf, validateForm(f) = {} PROVE Sound(f)
<1>1. \A k \in FormFields : f[k] \in Nat \cup {-1}
  BY DEF DraftOf, NaN
<1>2. f.minDeposit \in Nat \cup {-1} /\ f.maxDeposit \in Nat \cup {-1} /\ f.maxParticipants \in Nat \cup {-1}
      /\ f.startDate \in Nat \cup {-1} /\ f.endDate \in Nat \cup {-1}
  BY <1>1 DEF FormFields
<1>3. ~(f.minDeposit < DepositFloor \/ f.minDeposit > DepositCeiling)
  BY DEF validateForm, FormFields
<1>4. ~(f.maxDeposit < CapFloor \/ f.maxDeposit > CapCeiling \/ LimitsWrong(f))
  BY DEF validateForm, FormFields
<1>5. ~(f.maxParticipants < 1 \/ f.maxParticipants > MaxPlaces)
  BY DEF validateForm, FormFields
<1>6. f.startDate # NaN
  BY DEF validateForm, FormFields
<1>7. ~(f.endDate = NaN \/ DatesWrong(f))
  BY DEF validateForm, FormFields
<1>8. DepositFloor \in Nat /\ DepositCeiling \in Nat /\ CapFloor \in Nat /\ CapCeiling \in Nat /\ MaxPlaces \in Nat
  BY PoolCreationAssumption
<1>9. f.minDeposit < f.maxDeposit
  BY <1>2, <1>3, <1>4, <1>8 DEF LimitsWrong, NaN
<1>10. f.startDate < f.endDate /\ NaN < f.startDate
  BY <1>2, <1>6, <1>7 DEF DatesWrong, NaN
<1>11. QED
  BY <1>2, <1>3, <1>4, <1>5, <1>8, <1>9, <1>10 DEF Sound

LEMMA EmptyDraftFits == EmptyDraft \in DraftOf
<1>1. DepositFloor \in Nat /\ CapCeiling \in Nat /\ MaxPlaces \in Nat
  BY PoolCreationAssumption
<1>2. QED
  BY <1>1 DEF EmptyDraft, DraftOf, FormFields, NaN

LEMMA ReviewedIsValidStep == ReviewedIsValid /\ [PoolFormNext]_poolFormVars => ReviewedIsValid'
<1> SUFFICES ASSUME ReviewedIsValid, [PoolFormNext]_poolFormVars PROVE ReviewedIsValid'
  OBVIOUS
<1> USE DEF ReviewedIsValid
<1>1. ASSUME NEW k \in FormFields, NEW v \in Nat \cup {NaN}, update(k, v) PROVE ReviewedIsValid'
  <2>1. draft' \in DraftOf
    BY <1>1 DEF update, DraftOf
  <2>2. QED
    BY <1>1, <2>1 DEF update
<1>2. ASSUME NEW v \in 0 .. 2, update("name", v) PROVE ReviewedIsValid'
  <2>1. "name" \in FormFields /\ v \in Nat \cup {NaN}
    BY DEF FormFields
  <2>2. QED
    BY <1>1, <1>2, <2>1
<1>3. ASSUME NEW k \in FormFields \ {"name"}, NEW v \in FieldValues, update(k, v) PROVE ReviewedIsValid'
  <2>1. v \in Nat \cup {NaN}
    BY PoolCreationAssumption DEF NaN
  <2>2. QED
    BY <1>1, <1>3, <2>1
<1>4. CASE handleNext
  BY <1>4 DEF handleNext
<1>5. CASE PreviousStep
  BY <1>5 DEF PreviousStep
<1>6. CASE SignPool
  <2>1. \A a \in asked' : a \in asked \/ a.draft = draft
    BY <1>6 DEF SignPool
  <2>2. QED
    BY <1>6, <2>1 DEF SignPool
<1>7. CASE CreateAnother
  BY <1>7, EmptyDraftFits DEF CreateAnother
<1>8. CASE \E ok \in BOOLEAN : PoolSubmitted(ok)
  BY <1>8 DEF PoolSubmitted
<1>9. CASE UNCHANGED poolFormVars
  BY <1>9 DEF poolFormVars
<1>10. QED
  BY <1>2, <1>3, <1>4, <1>5, <1>6, <1>7, <1>8, <1>9 DEF PoolFormNext

LEMMA SignedPoolHolds == PoolFormSpec => []SignedPoolIsSound
<1>1. PoolFormInit => ReviewedIsValid
  BY EmptyDraftFits DEF PoolFormInit, ReviewedIsValid
<1>2. ReviewedIsValid => SignedPoolIsSound
  BY ValidIsSound DEF ReviewedIsValid, SignedPoolIsSound, Sound
<1>3. QED
  BY <1>1, <1>2, ReviewedIsValidStep, PTL DEF PoolFormSpec

-----------------------------------------------------------------------------
(* The support widget.                                                       *)

Texts == {"blank", "text", "malformed"}

\* Only a ticket without errors is sent, and a field that shows one has it.
TicketChecked ==
    /\ ticket \in [TicketFields -> Texts]
    /\ ticketErrors \subseteq TicketFields
    /\ ShownErrorHolds /\ SentIsAnswerable

LEMMA TicketCheckedStep == TicketChecked /\ [DeskNext]_deskVars => TicketChecked'
<1> SUFFICES ASSUME TicketChecked, [DeskNext]_deskVars PROVE TicketChecked'
  OBVIOUS
<1> USE DEF TicketChecked, ShownErrorHolds, SentIsAnswerable
<1>1. CASE toggleWidget
  <2>1. ticketErrors' \subseteq TicketFields /\ (widgetOpen' => ticketErrors' = {})
    BY <1>1 DEF toggleWidget
  <2>2. QED
    BY <1>1, <2>1 DEF toggleWidget
<1>2. CASE SubmitTicket
  <2>1. CASE validateTicket(ticket) # {}
    <3>1. validateTicket(ticket) \subseteq TicketFields
      BY DEF validateTicket
    <3>2. ticketErrors' = validateTicket(ticket) /\ UNCHANGED <<ticket, sentTicket>>
      BY <1>2, <2>1 DEF SubmitTicket
    <3>3. validateTicket(ticket)' = validateTicket(ticket)
      BY <3>2 DEF validateTicket
    <3>4. QED
      BY <3>1, <3>2, <3>3
  <2>2. CASE validateTicket(ticket) = {}
    <3>1. sentTicket' = ticket /\ UNCHANGED <<ticket, ticketErrors, widgetOpen>>
      BY <1>2, <2>2 DEF SubmitTicket
    <3>2. \A k \in TicketFields : ticket[k] = "text"
      BY <2>2 DEF validateTicket
    <3>3. validateTicket(ticket)' = validateTicket(ticket)
      BY <3>1 DEF validateTicket
    <3>4. QED
      BY <3>1, <3>2, <3>3
  <2>3. QED
    BY <2>1, <2>2
<1>3. CASE TicketAccepted
  <2>1. ticket' = BlankTicket /\ UNCHANGED <<ticketErrors, sentTicket>>
    BY <1>3 DEF TicketAccepted
  <2>2. ticket' \in [TicketFields -> Texts] /\ \A k \in TicketFields : ticket'[k] # "text"
    BY <2>1 DEF BlankTicket, Texts
  <2>3. validateTicket(ticket)' = TicketFields
    BY <2>2 DEF validateTicket
  <2>4. QED
    BY <2>1, <2>2, <2>3
<1>4. ASSUME NEW v, Navigate(v) PROVE TicketChecked'
  BY <1>4 DEF Navigate, validateTicket
<1>5. ASSUME NEW t, OpenTopic(t) PROVE TicketChecked'
  BY <1>5 DEF OpenTopic, validateTicket
<1>6. ASSUME NEW k \in TicketFields, NEW x \in TicketTexts(k), handleInputChange(k, x) PROVE TicketChecked'
  <2>1. x \in Texts
    BY DEF TicketTexts, Texts
  <2>2. ticket' = [ticket EXCEPT ![k] = x] /\ ticketErrors' = ticketErrors \ {k} /\ widgetOpen
        /\ UNCHANGED <<sentTicket, widgetOpen>>
    BY <1>6 DEF handleInputChange, ClearedError
  <2>3. ticket' \in [TicketFields -> Texts] /\ \A j \in TicketFields : j # k => ticket'[j] = ticket[j]
    BY <2>1, <2>2
  <2>4. \A j \in ticketErrors' : j \in TicketFields /\ j # k /\ ticket[j] # "text"
    BY <2>2 DEF validateTicket
  <2>5. ticketErrors' \subseteq validateTicket(ticket)'
    BY <2>3, <2>4 DEF validateTicket
  <2>6. QED
    BY <2>2, <2>3, <2>4, <2>5
<1>7. CASE UNCHANGED deskVars
  BY <1>7 DEF deskVars, validateTicket
<1>8. QED
  BY <1>1, <1>2, <1>3, <1>4, <1>5, <1>6, <1>7 DEF DeskNext

LEMMA TicketCheckedHolds == DeskSpec => []TicketChecked
<1>1. DeskInit => TicketChecked
  BY DEF DeskInit, TicketChecked, ShownErrorHolds, SentIsAnswerable, BlankTicket, Texts
<1>2. QED
  BY <1>1, TicketCheckedStep, PTL DEF DeskSpec

-----------------------------------------------------------------------------
(* The custom endpoints.                                                     *)

Verdicts == [urls : [RpcFields -> Urls], verdict : [RpcFields -> {"waiting", "ok", "bad"}]]

\* A verdict that is good was given by an answer of that URL, and none is
\* awaited for a blank one, so that writing keeps nothing that was not reached.
VerdictsAreEarned ==
    /\ rpcValues \in [RpcFields -> Urls]
    /\ rpcStore # <<>> => rpcStore \in [RpcFields -> Urls]
    /\ saves \in Seq(Verdicts)
    /\ \A i \in DOMAIN saves, k \in RpcFields :
         /\ saves[i].verdict[k] = "ok" => <<k, normalizeBaseUrl(saves[i].urls[k])>> \in reachable
         /\ saves[i].urls[k] = Blank => saves[i].verdict[k] = "bad"
    /\ \A k \in RpcFields : <<k, Public>> \in reachable
    /\ InUseWasReached

LEMMA HeardGrows ==
    ASSUME NEW k, NEW url, NEW ok \in BOOLEAN, Heard(k, url, ok)
    PROVE  reachable \subseteq reachable' /\ (ok => <<k, normalizeBaseUrl(url)>> \in reachable')
BY DEF Heard

\* With the values and the saves left alone, reaching more changes nothing.
LEMMA ReachingMore ==
    ASSUME VerdictsAreEarned, rpcValues' \in [RpcFields -> Urls], UNCHANGED <<saves, rpcStore, evmUrls>>,
           reachable \subseteq reachable'
    PROVE  VerdictsAreEarned'
<1>1. readStoredRpc' = readStoredRpc
  BY DEF readStoredRpc
<1>2. InUseWasReached'
  BY <1>1 DEF VerdictsAreEarned, InUseWasReached
<1>3. QED
  BY <1>2 DEF VerdictsAreEarned

\* The save of the click: nothing was heard yet.
LEMMA SaveWaits == ASSUME VerdictsAreEarned, handleSave PROVE VerdictsAreEarned'
<1>1. PICK v \in [RpcFields -> {"waiting", "ok", "bad"}] :
        v = [k \in RpcFields |-> IF rpcValues[k] = Blank THEN "bad" ELSE "waiting"]
  OBVIOUS
<1>2. PICK s \in Verdicts : s = [urls |-> rpcValues, verdict |-> v]
  BY DEF VerdictsAreEarned, Verdicts
<1>3. saves' = Append(saves, s) /\ UNCHANGED <<rpcValues, rpcStore, evmUrls, reachable>>
  BY <1>1, <1>2 DEF handleSave
<1>4. saves' \in Seq(Verdicts) /\ \A i \in DOMAIN saves' : (i \in DOMAIN saves /\ saves'[i] = saves[i]) \/ saves'[i] = s
  BY <1>3 DEF VerdictsAreEarned
<1>5. \A k \in RpcFields : s.verdict[k] # "ok" /\ (s.urls[k] = Blank => s.verdict[k] = "bad")
  BY <1>1, <1>2
<1>6. InUseWasReached'
  BY <1>3 DEF VerdictsAreEarned, InUseWasReached, readStoredRpc
<1>7. QED
  BY <1>3, <1>4, <1>5, <1>6 DEF VerdictsAreEarned

\* A page that is loaded again awaits nothing.
LEMMA ReloadForgets == ASSUME VerdictsAreEarned, ReloadPage PROVE VerdictsAreEarned'
<1>1. PICK v \in [RpcFields -> {"waiting", "ok", "bad"}] : v = [k \in RpcFields |-> "bad"]
  OBVIOUS
<1>2. saves' = [i \in DOMAIN saves |-> [saves[i] EXCEPT !.verdict = v]]
  BY <1>1 DEF ReloadPage
<1>3. ASSUME NEW i \in DOMAIN saves
      PROVE  saves'[i] \in Verdicts /\ saves'[i].verdict = v
  <2>1. PICK s \in Verdicts : s = saves[i]
    BY DEF VerdictsAreEarned
  <2>2. [s EXCEPT !.verdict = v] \in Verdicts /\ [s EXCEPT !.verdict = v].verdict = v
    BY DEF Verdicts
  <2>3. QED
    BY <1>2, <2>1, <2>2
<1>4. saves' \in Seq(Verdicts) /\ DOMAIN saves' = DOMAIN saves
  <2>1. saves \in Seq(Verdicts)
    BY DEF VerdictsAreEarned
  <2>2. DOMAIN saves = 1 .. Len(saves) /\ Len(saves) \in Nat
    BY <2>1
  <2>3. saves' \in [1 .. Len(saves) -> Verdicts]
    BY <1>2, <1>3, <2>2
  <2>4. QED
    BY <2>2, <2>3, SeqDef
<1>5. \A k \in RpcFields : v[k] = "bad"
  BY <1>1
<1>6. rpcValues' \in [RpcFields -> Urls]
  BY DEF ReloadPage, DEFAULT_RPC, Urls
<1>7. evmUrls' = readStoredRpc /\ UNCHANGED <<rpcStore, reachable>>
  BY DEF ReloadPage
<1>8. InUseWasReached'
  BY <1>7 DEF VerdictsAreEarned, InUseWasReached, readStoredRpc
<1>9. QED
  BY <1>3, <1>4, <1>5, <1>6, <1>7, <1>8 DEF VerdictsAreEarned

\* The last good ping of a save stores URLs that all answered.
LEMMA SaveIsReached ==
    ASSUME VerdictsAreEarned, NEW i \in DOMAIN saves, NEW k \in RpcFields, SaveAnswered(i, k)
    PROVE  VerdictsAreEarned'
<1>1. PICK s \in Verdicts : s = saves[i] /\ s.verdict[k] = "waiting"
  BY DEF VerdictsAreEarned, SaveAnswered
<1>2. PICK ok \in BOOLEAN : LET w == [s.verdict EXCEPT ![k] = IF ok THEN "ok" ELSE "bad"] IN
        /\ Heard(k, s.urls[k], ok)
        /\ saves' = [saves EXCEPT ![i].verdict = w]
        /\ IF \A j \in RpcFields : w[j] = "ok"
             THEN /\ rpcStore' = writeStoredRpc(SavedValues(i))
                  /\ evmUrls' = rpcStore' /\ rpcOpen' = FALSE
             ELSE UNCHANGED <<rpcStore, evmUrls, rpcOpen>>
  BY <1>1 DEF SaveAnswered, Answers
<1>3. PICK w \in [RpcFields -> {"waiting", "ok", "bad"}] : w = [s.verdict EXCEPT ![k] = IF ok THEN "ok" ELSE "bad"]
  BY DEF Verdicts
<1>4. reachable \subseteq reachable' /\ (ok => <<k, normalizeBaseUrl(s.urls[k])>> \in reachable')
  BY <1>2, HeardGrows
<1>5. \A j \in RpcFields : s.verdict[j] = "ok" => <<j, normalizeBaseUrl(s.urls[j])>> \in reachable
  BY <1>1 DEF VerdictsAreEarned
<1>6. \A j \in RpcFields : s.urls[j] = Blank => s.verdict[j] = "bad"
  BY <1>1 DEF VerdictsAreEarned
<1>7. s.verdict \in [RpcFields -> {"waiting", "ok", "bad"}] /\ s.urls \in [RpcFields -> Urls]
  BY DEF Verdicts
<1>8. \A j \in RpcFields : w[j] = (IF j = k THEN (IF ok THEN "ok" ELSE "bad") ELSE s.verdict[j])
  BY <1>3, <1>7
<1>9. \A j \in RpcFields : w[j] = "ok" => <<j, normalizeBaseUrl(s.urls[j])>> \in reachable'
  BY <1>4, <1>5, <1>8
<1>10. \A j \in RpcFields : s.urls[j] = Blank => w[j] = "bad"
  BY <1>1, <1>6, <1>8
<1>11. PICK z \in Verdicts : z = [s EXCEPT !.verdict = w] /\ z.verdict = w /\ z.urls = s.urls
  <2>1. [s EXCEPT !.verdict = w] \in Verdicts /\ [s EXCEPT !.verdict = w].verdict = w
        /\ [s EXCEPT !.verdict = w].urls = s.urls
    BY DEF Verdicts
  <2>2. QED
    BY <2>1
<1>12. saves' = [saves EXCEPT ![i] = z]
  BY <1>1, <1>2, <1>3, <1>11
<1>13. saves' \in Seq(Verdicts) /\ DOMAIN saves' = DOMAIN saves /\ saves'[i] = z
       /\ \A n \in DOMAIN saves : n # i => saves'[n] = saves[n]
  BY <1>12 DEF VerdictsAreEarned
<1>14. rpcValues' = rpcValues
  BY DEF SaveAnswered
<1>15. ASSUME NEW n \in DOMAIN saves', NEW j \in RpcFields
        PROVE  /\ saves'[n].verdict[j] = "ok" => <<j, normalizeBaseUrl(saves'[n].urls[j])>> \in reachable'
               /\ saves'[n].urls[j] = Blank => saves'[n].verdict[j] = "bad"
  <2>1. CASE n = i
    <3>1. saves'[n].verdict = w /\ saves'[n].urls = s.urls
      BY <1>11, <1>13, <2>1
    <3>2. QED
      BY <3>1, <1>9, <1>10
  <2>2. CASE n # i
    <3>1. saves'[n] = saves[n] /\ n \in DOMAIN saves
      BY <1>13, <2>2
    <3>2. /\ saves[n].verdict[j] = "ok" => <<j, normalizeBaseUrl(saves[n].urls[j])>> \in reachable
          /\ saves[n].urls[j] = Blank => saves[n].verdict[j] = "bad"
      BY <3>1 DEF VerdictsAreEarned
    <3>3. QED
      BY <3>1, <3>2, <1>4
  <2>3. QED
    BY <2>1, <2>2
<1>16. rpcValues' \in [RpcFields -> Urls] /\ \A j \in RpcFields : <<j, Public>> \in reachable'
  BY <1>4, <1>14 DEF VerdictsAreEarned
<1>17. CASE ~(\A j \in RpcFields : w[j] = "ok")
  <2>1. UNCHANGED <<rpcStore, evmUrls>>
    BY <1>2, <1>3, <1>17
  <2>2. InUseWasReached'
    BY <1>4, <2>1 DEF VerdictsAreEarned, InUseWasReached, readStoredRpc
  <2>3. QED
    <3>1. rpcStore' # <<>> => rpcStore' \in [RpcFields -> Urls]
      BY <2>1 DEF VerdictsAreEarned
    <3>2. QED
      BY <1>13, <1>15, <1>16, <3>1, <2>2 DEF VerdictsAreEarned
<1>18. CASE \A j \in RpcFields : w[j] = "ok"
  <2>1. \A j \in RpcFields : s.urls[j] # Blank
    BY <1>10, <1>18
  <2>2. rpcStore' = writeStoredRpc(s.urls) /\ evmUrls' = rpcStore'
    BY <1>1, <1>2, <1>3, <1>18 DEF SavedValues
  <2>3. writeStoredRpc(s.urls) = [j \in RpcFields |-> s.urls[j]]
    BY <2>1 DEF writeStoredRpc
  <2>4. rpcStore' \in [RpcFields -> Urls] /\ \A j \in RpcFields : rpcStore'[j] = s.urls[j]
    BY <1>7, <2>2, <2>3
  <2>5. \A j \in RpcFields : <<j, normalizeBaseUrl(s.urls[j])>> \in reachable' /\ <<j, Public>> \in reachable'
    BY <1>4, <1>9, <1>18 DEF VerdictsAreEarned
  <2>6. InUseWasReached'
    BY <2>2, <2>4, <2>5 DEF InUseWasReached, readStoredRpc, DEFAULT_RPC, normalizeBaseUrl
  <2>7. QED
    BY <1>13, <1>15, <1>16, <2>4, <2>6 DEF VerdictsAreEarned
<1>19. QED
  BY <1>17, <1>18

LEMMA VerdictsAreEarnedStep == VerdictsAreEarned /\ [CustomRpcNext]_rpcVars => VerdictsAreEarned'
<1> SUFFICES ASSUME VerdictsAreEarned, [CustomRpcNext]_rpcVars PROVE VerdictsAreEarned'
  OBVIOUS
<1>0. DEFAULT_RPC \in [RpcFields -> Urls] /\ readStoredRpc \in [RpcFields -> Urls]
  BY DEF DEFAULT_RPC, Urls, readStoredRpc, VerdictsAreEarned
<1>00. rpcValues \in [RpcFields -> Urls]
  BY DEF VerdictsAreEarned
<1>1. CASE OpenDialog
  BY <1>0, <1>1, ReachingMore DEF OpenDialog
<1>2. CASE CloseDialog
  BY <1>00, <1>2, ReachingMore DEF CloseDialog
<1>3. CASE handleReset
  BY <1>0, <1>3, ReachingMore DEF handleReset
<1>4. CASE handleSave
  BY <1>4, SaveWaits
<1>5. CASE ReloadPage
  BY <1>5, ReloadForgets
<1>6. ASSUME NEW k \in RpcFields, TestField(k) PROVE VerdictsAreEarned'
  BY <1>00, <1>6, ReachingMore DEF TestField
<1>7. ASSUME NEW k \in RpcFields, NEW url \in Urls, setField(k, url) PROVE VerdictsAreEarned'
  <2>1. rpcValues' \in [RpcFields -> Urls]
    BY <1>00, <1>7 DEF setField
  <2>2. QED
    BY <2>1, <1>7, ReachingMore DEF setField
<1>8. ASSUME NEW p \in probes, ProbeAnswered(p) PROVE VerdictsAreEarned'
  <2>1. PICK ok \in BOOLEAN : Heard(p[1], p[2], ok)
    BY <1>8 DEF ProbeAnswered, Answers
  <2>2. reachable \subseteq reachable'
    BY <2>1, HeardGrows
  <2>3. QED
    BY <1>00, <1>8, <2>2, ReachingMore DEF ProbeAnswered
<1>9. ASSUME NEW i \in DOMAIN saves, NEW k \in RpcFields, SaveAnswered(i, k) PROVE VerdictsAreEarned'
  BY <1>9, SaveIsReached
<1>10. CASE UNCHANGED rpcVars
  BY <1>00, <1>10, ReachingMore DEF rpcVars
<1>11. QED
  BY <1>1, <1>2, <1>3, <1>4, <1>5, <1>6, <1>7, <1>8, <1>9, <1>10 DEF CustomRpcNext

LEMMA ReachedHolds == CustomRpcSpec => []InUseWasReached
<1>1. CustomRpcInit => VerdictsAreEarned
  <2> SUFFICES ASSUME CustomRpcInit PROVE VerdictsAreEarned
    OBVIOUS
  <2>1. DEFAULT_RPC \in [RpcFields -> Urls] /\ \A k \in RpcFields : DEFAULT_RPC[k] = Public
    BY DEF DEFAULT_RPC, Urls
  <2>2. saves = <<>> /\ rpcStore = <<>> /\ rpcValues = DEFAULT_RPC /\ evmUrls = DEFAULT_RPC
        /\ reachable = RpcFields \X {Public}
    BY DEF CustomRpcInit
  <2>3. saves \in Seq(Verdicts) /\ DOMAIN saves = {}
    BY <2>2
  <2>4. InUseWasReached
    BY <2>1, <2>2 DEF InUseWasReached, readStoredRpc, normalizeBaseUrl
  <2>5. QED
    BY <2>1, <2>2, <2>3, <2>4 DEF VerdictsAreEarned
<1>2. VerdictsAreEarned => InUseWasReached
  BY DEF VerdictsAreEarned
<1>3. QED
  BY <1>1, <1>2, VerdictsAreEarnedStep, PTL DEF CustomRpcSpec

\* What leaves a form was checked in the state in which it leaves, for any
\* amounts, limits, pools, fields, parameters and endpoints, and however often
\* the user went back, edited, closed and tried again (DepositModal,
\* WithdrawalModal, PoolCreationForm, SupportWidget, the settings page and
\* CustomRpcModal).
THEOREM FormsAreChecked ==
    DialogSpec /\ PoolFormSpec /\ DeskSpec /\ AdminSpec /\ CustomRpcSpec => []SentWasChecked
<1>1. CheckedIsCurrent => SignedWasChecked /\ DepositNeverAddsWarning
  BY DepositAddsNothing, SignedIsChecked
<1>2. TicketChecked => ShownErrorHolds /\ SentIsAnswerable
  BY DEF TicketChecked
<1>3. SignedWasChecked /\ DepositNeverAddsWarning /\ SignedPoolIsSound /\ SentIsAnswerable
      /\ ShownErrorHolds /\ UnblockedIsWithinBounds /\ InUseWasReached => SentWasChecked
  BY DEF SentWasChecked
<1>4. QED
  BY <1>1, <1>2, <1>3, BoundsAreTold, CheckedIsCurrentHolds, SignedPoolHolds, TicketCheckedHolds, AdminTypesHold,
     ReachedHolds, PTL

-----------------------------------------------------------------------------
(* The tabs of the wallet.                                                   *)

Keys == Accounts \cup {NoKey}
Partings == [from : Keys, metOther : BOOLEAN]

\* Until a check met another address, the indicator suppresses the one its user
\* disconnected.
PartedIsSuppressed ==
    /\ tabKey \in [Tabs -> Keys] /\ stored \in Keys
    /\ suppressed \in [Tabs -> Keys] /\ parted \in [Tabs -> Partings]
    /\ surface = "indicator" =>
         \A t \in Tabs : parted[t].from = NoKey \/ parted[t].metOther \/ suppressed[t] = parted[t].from

\* A check either disconnects the tab, or leaves its key, or adopts an address
\* that was not suppressed.
LEMMA CheckStep ==
    ASSUME PartedIsSuppressed, NEW t \in Tabs, NEW c \in Checks, checkExternalConnection(t, c)
    PROVE  /\ PartedIsSuppressed'
           /\ surface = "indicator" /\ tabKey'[t] # tabKey[t] /\ tabKey'[t] = parted[t].from
                => parted'[t].metOther \/ tabKey'[t] = NoKey
<1> DEFINE address == polling[t][c].address
           other == address \in Accounts /\ address # parted[t].from
<1>1. parted' = [parted EXCEPT ![t].metOther = @ \/ other] /\ surface' = surface
  BY DEF checkExternalConnection
<1>2. PICK met \in BOOLEAN : met <=> parted[t].metOther \/ other
  OBVIOUS
<1>3. parted' = [parted EXCEPT ![t] = [@ EXCEPT !.metOther = met]]
  BY <1>1, <1>2, Zenon DEF PartedIsSuppressed, Partings
<1>4. /\ parted' \in [Tabs -> Partings]
      /\ parted'[t].from = parted[t].from /\ parted'[t].metOther = met
      /\ \A u \in Tabs : u # t => parted'[u] = parted[u]
  BY <1>3 DEF PartedIsSuppressed, Partings
<1>5. /\ suppressed' \in [Tabs -> Keys]
      /\ \A u \in Tabs : u # t => suppressed'[u] = suppressed[u]
      /\ suppressed'[t] = suppressed[t] \/ (address \in Accounts /\ suppressed[t] # address)
  BY DEF checkExternalConnection, Suppresses, PartedIsSuppressed, Keys
<1>6. \/ KeepConnection \/ disconnect(t)
      \/ address \in Accounts /\ suppressed[t] # address /\ setConnection(t, address)
      \/ tabKey' = tabKey /\ stored' = stored
  BY DEF checkExternalConnection, Suppresses
<1>7. tabKey' \in [Tabs -> Keys] /\ stored' \in Keys
  BY <1>6 DEF PartedIsSuppressed, KeepConnection, disconnect, setConnection, Stores, Keys
<1>8. PartedIsSuppressed'
  <2>1. ASSUME surface = "indicator", NEW u \in Tabs
        PROVE  parted'[u].from = NoKey \/ parted'[u].metOther \/ suppressed'[u] = parted'[u].from
    <3>1. CASE u # t
      BY <2>1, <3>1, <1>4, <1>5 DEF PartedIsSuppressed
    <3>2. CASE u = t /\ ~ met
      BY <2>1, <3>2, <1>2, <1>4, <1>5 DEF PartedIsSuppressed
    <3>3. CASE u = t /\ met
      BY <3>3, <1>4
    <3>4. QED
      BY <3>1, <3>2, <3>3
  <2>2. QED
    BY <2>1, <1>1, <1>4, <1>5, <1>7 DEF PartedIsSuppressed
<1>9. ASSUME surface = "indicator", tabKey'[t] # tabKey[t], tabKey'[t] = parted[t].from, tabKey'[t] # NoKey
      PROVE  parted'[t].metOther
  <2>1. address \in Accounts /\ suppressed[t] # address /\ tabKey'[t] = address
    BY <1>6, <1>9 DEF KeepConnection, disconnect, setConnection, PartedIsSuppressed
  <2>2. parted[t].metOther
    BY <2>1, <1>9 DEF PartedIsSuppressed
  <2>3. QED
    BY <2>2, <1>2, <1>4
<1>10. QED
  BY <1>8, <1>9

LEMMA CheckAvoidsParted == PartedIsSuppressed => CheckNeverReadopts
BY CheckStep DEF CheckNeverReadopts

LEMMA PartedIsSuppressedHolds == TabSpec => []PartedIsSuppressed
<1>1. TabInit => PartedIsSuppressed
  BY DEF TabInit, PartedIsSuppressed, Partings, NotParted, Keys
<1>2. ASSUME PartedIsSuppressed, [TabNext]_tabVars PROVE PartedIsSuppressed'
  <2>1. CASE UNCHANGED tabVars
    BY <1>2, <2>1 DEF PartedIsSuppressed, tabVars
  <2>2. ASSUME NEW t \in Tabs, NEW c \in Checks, checkExternalConnection(t, c) PROVE PartedIsSuppressed'
    BY <1>2, <2>2, CheckStep
  <2>3. ASSUME NEW t \in Tabs,
               \/ getConnectedNetwork(t) \/ initializeConnection(t) \/ onVisibilityChange(t)
               \/ connectWallet(t) \/ disconnectWallet(t)
        PROVE  PartedIsSuppressed'
    <3>1. UNCHANGED <<surface, suppressed, parted>>
      BY <2>3 DEF getConnectedNetwork, initializeConnection, onVisibilityChange, connectWallet, disconnectWallet
    <3>2. \/ KeepConnection
          \/ disconnect(t)
          \/ tabKey' = tabKey /\ stored' = stored
          \/ FromStore(t) /\ stored' = stored
          \/ freighter \in Accounts /\ setConnection(t, freighter)
      BY <2>3 DEF getConnectedNetwork, initializeConnection, onVisibilityChange, connectWallet, disconnectWallet
    <3>3. tabKey' \in [Tabs -> Keys] /\ stored' \in Keys
      BY <1>2, <3>2 DEF PartedIsSuppressed, KeepConnection, disconnect, setConnection, Stores, FromStore, Keys
    <3>4. QED
      BY <1>2, <3>1, <3>3 DEF PartedIsSuppressed
  <2>4. ASSUME NEW t \in Tabs, OpenTab(t) \/ handleConnect(t) PROVE PartedIsSuppressed'
    <3>1. /\ surface' = surface /\ stored' = stored /\ (FromStore(t) \/ tabKey' = tabKey)
          /\ parted' = [parted EXCEPT ![t] = NotParted] /\ suppressed' = [suppressed EXCEPT ![t] = NoKey]
      BY <2>4 DEF OpenTab, handleConnect
    <3>2. tabKey' \in [Tabs -> Keys] /\ stored' \in Keys
      BY <1>2, <3>1 DEF PartedIsSuppressed, FromStore
    <3>3. NotParted \in Partings /\ NotParted.from = NoKey /\ NoKey \in Keys
      BY DEF NotParted, Partings, Keys
    <3>4. QED
      BY <1>2, <3>1, <3>2, <3>3 DEF PartedIsSuppressed
  <2>5. ASSUME NEW t \in Tabs, handleDisconnect(t) PROVE PartedIsSuppressed'
    <3>1. /\ surface' = surface /\ parted' = [parted EXCEPT ![t] = [from |-> tabKey[t], metOther |-> FALSE]]
          /\ surface = "indicator" => suppressed' = [suppressed EXCEPT ![t] = tabKey[t]]
          /\ suppressed' \in {suppressed, [suppressed EXCEPT ![t] = tabKey[t]]}
          /\ (KeepConnection \/ disconnect(t))
      BY <2>5 DEF handleDisconnect, Remembered
    <3>2. tabKey' \in [Tabs -> Keys] /\ stored' \in Keys
      BY <1>2, <3>1 DEF PartedIsSuppressed, KeepConnection, disconnect, Stores, Keys
    <3>3. [from |-> tabKey[t], metOther |-> FALSE] \in Partings
      BY <1>2 DEF PartedIsSuppressed, Partings
    <3>4. QED
      BY <1>2, <3>1, <3>2, <3>3 DEF PartedIsSuppressed
  <2>6. CASE UseExtension
    BY <1>2, <2>6 DEF UseExtension, PartedIsSuppressed
  <2>7. ASSUME NEW t \in Tabs, \E c \in Checks : BeginCheck(t, c) PROVE PartedIsSuppressed'
    BY <1>2, <2>7 DEF BeginCheck, PartedIsSuppressed
  <2>8. QED
    BY <1>2, <2>1, <2>2, <2>3, <2>4, <2>5, <2>6, <2>7 DEF TabNext
<1>3. QED
  BY <1>1, <1>2, PTL DEF TabSpec

-----------------------------------------------------------------------------
(* The operations page.                                                      *)

\* Every listing has its decision, and the replay of the page its range and a
\* bar below its end.
OpsShape ==
    /\ DOMAIN review = Listings
    /\ replay # NoRange => progress \in {10, 30, 50, 70, 90}
    /\ ProgressNeverEarly /\ ShownRangeIsRunning

LEMMA OpsShapeStep == OpsShape /\ [OpsNext]_opsVars => OpsShape' /\ DecisionStands
<1> SUFFICES ASSUME OpsShape, [OpsNext]_opsVars PROVE OpsShape' /\ DecisionStands
  OBVIOUS
<1> USE DEF OpsShape, ProgressNeverEarly, ShownRangeIsRunning, DecisionStands, queueVars, replayVars
<1>1. CASE DisconnectOperator
  <2>1. DOMAIN review' = Listings /\ operator' = "none"
    BY <1>1 DEF DisconnectOperator
  <2>2. QED
    BY <1>1, <2>1 DEF DisconnectOperator
<1>2. ASSUME NEW who, ConnectOperator(who) PROVE OpsShape' /\ DecisionStands
  BY <1>2 DEF ConnectOperator
<1>3. ASSUME NEW l, TypeNote(l) PROVE OpsShape' /\ DecisionStands
  BY <1>3 DEF TypeNote
<1>4. ASSUME NEW l \in Listings, NEW v, Decide(l, v) PROVE OpsShape' /\ DecisionStands
  <2>1. review' = [review EXCEPT ![l] = v] /\ review[l] = "pending" /\ UNCHANGED replayVars
    BY <1>4 DEF Decide, pendingPools
  <2>2. DOMAIN review' = Listings /\ \A m \in Listings : m # l => review'[m] = review[m]
    BY <2>1
  <2>3. QED
    BY <2>1, <2>2
<1>5. ASSUME NEW i, NEW n, TypeLedger(i, n) PROVE OpsShape' /\ DecisionStands
  BY <1>5 DEF TypeLedger, isBusy
<1>6. CASE handleDryRun
  BY <1>6 DEF handleDryRun, isBusy
<1>7. CASE DryRunDone
  BY <1>7 DEF DryRunDone
<1>8. CASE AskConfirm
  BY <1>8 DEF AskConfirm
<1>9. CASE CancelConfirm
  BY <1>9 DEF CancelConfirm
<1>10. CASE handleReplay
  BY <1>10 DEF handleReplay
<1>11. CASE ProgressTick
  BY <1>11 DEF ProgressTick, NextProgress
<1>12. CASE ReplayDone
  BY <1>12 DEF ReplayDone
<1>13. CASE UNCHANGED opsVars
  BY <1>13 DEF opsVars
<1>14. QED
  BY <1>1, <1>2, <1>3, <1>4, <1>5, <1>6, <1>7, <1>8, <1>9, <1>10, <1>11, <1>12, <1>13 DEF OpsNext

LEMMA OpsShapeHolds == OpsSpec => []OpsShape
<1>1. OpsInit => OpsShape
  BY DEF OpsInit, OpsShape, FreshControl, ProgressNeverEarly, ShownRangeIsRunning
<1>2. QED
  BY <1>1, OpsShapeStep, PTL DEF OpsSpec

-----------------------------------------------------------------------------
(* Toasts.                                                                   *)

\* The toast of an error has no timeout.
ErrorsNeverExpire == \A i \in DOMAIN toasts : toasts[i].error => toasts[i].expires = 0

LEMMA ErrorsNeverExpireHolds == TimedSpec => []ErrorsNeverExpire
<1>1. TimedInit => ErrorsNeverExpire
  BY DEF TimedInit, NoToasts, ErrorsNeverExpire
<1>2. ErrorsNeverExpire /\ [TimedNext]_timedVars => ErrorsNeverExpire'
  <2> SUFFICES ASSUME ErrorsNeverExpire, [TimedNext]_timedVars PROVE ErrorsNeverExpire'
    OBVIOUS
  <2>1. ASSUME NEW i, NEW type \in {"pending", "success", "error"}, NEW e \in BOOLEAN, e => type = "error",
               addToast(i, type, e)
        PROVE  ErrorsNeverExpire'
    <3>1. e => ToastDelay(type, e) = 0
      BY <2>1 DEF ToastDelay
    <3>2. PICK d : d = ToastDelay(type, e) /\ (e => d = 0)
      BY <3>1
    <3>3. toasts' = [x \in DOMAIN toasts \cup {i} |->
                       IF x # i THEN toasts[x]
                       ELSE [type |-> type, error |-> e, expires |-> IF d = 0 THEN 0 ELSE tick + d]]
      BY <2>1, <3>2 DEF addToast
    <3>4. ASSUME NEW j \in DOMAIN toasts', toasts'[j].error PROVE toasts'[j].expires = 0
      <4>1. CASE j = i
        <5>1. toasts'[j] = [type |-> type, error |-> e, expires |-> IF d = 0 THEN 0 ELSE tick + d]
          BY <3>3, <4>1
        <5>2. toasts'[j].error = e /\ (d = 0 => toasts'[j].expires = 0)
          BY <5>1
        <5>3. QED
          BY <3>2, <3>4, <5>2
      <4>2. CASE j # i
        <5>1. j \in DOMAIN toasts /\ toasts'[j] = toasts[j]
          BY <3>3, <4>2
        <5>2. QED
          BY <3>4, <5>1 DEF ErrorsNeverExpire
      <4>3. QED
        BY <4>1, <4>2
    <3>5. QED
      BY <3>4 DEF ErrorsNeverExpire
  <2>2. ASSUME NEW i, removeToast(i) PROVE ErrorsNeverExpire'
    BY <2>2 DEF removeToast, ErrorsNeverExpire
  <2>3. CASE UNCHANGED toasts
    BY <2>3 DEF ErrorsNeverExpire
  <2>4. QED
    BY <2>1, <2>2, <2>3
    DEF TimedNext, timedVars, Tick, CountdownFrame, BridgeSecond, RefreshFrame, VisibilityChange, NewDeadline,
        PositionRenders, SetBridgeStep, ChooseInterval, ToastTimeout, DismissToast
<1>3. QED
  BY <1>1, <1>2, PTL DEF TimedSpec

LEMMA NoErrorTimesOut == ErrorsNeverExpire => ErrorToastStays
BY DEF ErrorsNeverExpire, ErrorToastStays, ToastTimeout

-----------------------------------------------------------------------------
(* The notification center.                                                  *)

Notice == [content : Nat, expires : BOOLEAN, status : {"unread", "read"}, dismissed : BOOLEAN, version : Nat]

IsList(l) == IsFiniteSet(DOMAIN l) /\ \A i \in DOMAIN l : l[i] \in Notice

\* What is dismissed in l and also in m is dismissed there.
KeepsDismissed(l, m) == \A i \in DOMAIN l \cap DOMAIN m : l[i].dismissed => m[i].dismissed

LEMMA CreatedFits == ASSUME NEW a \in Alerts PROVE createNotification(a) \in Notice
<1>1. PICK d \in BOOLEAN : d = FALSE
  OBVIOUS
<1>2. [content |-> a.content, expires |-> a.expires, status |-> "unread", dismissed |-> d, version |-> 1] \in Notice
  BY DEF Notice, Alerts
<1>3. QED
  BY <1>1, <1>2 DEF createNotification

\* An update keeps the flag and is a notice.
LEMMA UpdateFits ==
    ASSUME NEW x \in Notice, NEW z \in Notice
    PROVE  /\ [z EXCEPT !.dismissed = x.dismissed, !.version = x.version + 1] \in Notice
           /\ [z EXCEPT !.dismissed = x.dismissed, !.version = x.version + 1].dismissed = x.dismissed
<1>1. x.dismissed \in BOOLEAN /\ x.version + 1 \in Nat
  BY DEF Notice
<1>2. PICK d \in BOOLEAN, v \in Nat : d = x.dismissed /\ v = x.version + 1
  BY <1>1
<1>3. [z EXCEPT !.dismissed = d, !.version = v] \in Notice /\ [z EXCEPT !.dismissed = d, !.version = v].dismissed = d
  BY DEF Notice
<1>4. QED
  BY <1>2, <1>3

LEMMA UpsertKeeps ==
    ASSUME NEW l, IsList(l), NEW id, NEW z \in Notice
    PROVE  IsList(upsertNotification(l, id, z)) /\ KeepsDismissed(l, upsertNotification(l, id, z))
<1>1. PICK m : m = upsertNotification(l, id, z)
  OBVIOUS
<1>2. CASE id \notin DOMAIN l
  <2>1. m = [i \in DOMAIN l \cup {id} |-> IF i = id THEN z ELSE l[i]]
    BY <1>1, <1>2 DEF upsertNotification
  <2>2. DOMAIN m = DOMAIN l \cup {id} /\ IsFiniteSet(DOMAIN l \cup {id})
    BY <2>1, FS_AddElement DEF IsList
  <2>3. \A i \in DOMAIN l : i # id /\ m[i] = l[i]
    BY <1>2, <2>1
  <2>4. m[id] = z
    BY <2>1
  <2>5. QED
    BY <1>1, <2>2, <2>3, <2>4 DEF IsList, KeepsDismissed
<1>3. CASE id \in DOMAIN l /\ contentSignature(l[id]) = contentSignature(z)
  BY <1>3 DEF upsertNotification, KeepsDismissed
<1>4. CASE id \in DOMAIN l /\ contentSignature(l[id]) # contentSignature(z)
  <2>1. PICK x \in Notice : x = l[id]
    BY <1>4 DEF IsList
  <2>2. PICK y \in Notice : y = [z EXCEPT !.dismissed = x.dismissed, !.version = x.version + 1] /\ y.dismissed = x.dismissed
    BY UpdateFits
  <2>3. m = [l EXCEPT ![id] = y]
    BY <1>1, <1>4, <2>1, <2>2 DEF upsertNotification
  <2>4. DOMAIN m = DOMAIN l /\ m[id] = y /\ \A i \in DOMAIN l : i # id => m[i] = l[i]
    BY <1>4, <2>3
  <2>5. QED
    BY <1>1, <2>1, <2>2, <2>4 DEF IsList, KeepsDismissed
<1>5. QED
  BY <1>2, <1>3, <1>4

\* What the operators that mark a notice do to it.
LEMMA MarkedFits ==
    ASSUME NEW x \in Notice
    PROVE  /\ [x EXCEPT !.status = "read"] \in Notice
           /\ [x EXCEPT !.status = "read"].dismissed = x.dismissed
           /\ [x EXCEPT !.dismissed = TRUE] \in Notice
           /\ [x EXCEPT !.dismissed = TRUE].dismissed
<1>1. [x EXCEPT !.status = "read"] \in Notice /\ [x EXCEPT !.status = "read"].dismissed = x.dismissed
  BY DEF Notice
<1>2. PICK d \in BOOLEAN : d = TRUE
  OBVIOUS
<1>3. [x EXCEPT !.dismissed = d] \in Notice /\ [x EXCEPT !.dismissed = d].dismissed = d
  BY DEF Notice
<1>4. QED
  BY <1>1, <1>2, <1>3

LEMMA MarksKeep ==
    ASSUME NEW l, IsList(l), NEW id, NEW audiences
    PROVE  /\ IsList(markAllNotificationsRead(l)) /\ KeepsDismissed(l, markAllNotificationsRead(l))
           /\ IsList(markNotificationRead(l, id)) /\ KeepsDismissed(l, markNotificationRead(l, id))
           /\ IsList(dismissNotification(l, id)) /\ KeepsDismissed(l, dismissNotification(l, id))
           /\ IsList(dismissAllNotifications(l, audiences)) /\ KeepsDismissed(l, dismissAllNotifications(l, audiences))
<1>1. \A i \in DOMAIN l : /\ [l[i] EXCEPT !.status = "read"] \in Notice
                          /\ [l[i] EXCEPT !.status = "read"].dismissed = l[i].dismissed
                          /\ [l[i] EXCEPT !.dismissed = TRUE] \in Notice
                          /\ [l[i] EXCEPT !.dismissed = TRUE].dismissed
  BY MarkedFits DEF IsList
<1>2. IsList(markAllNotificationsRead(l)) /\ KeepsDismissed(l, markAllNotificationsRead(l))
  BY <1>1 DEF markAllNotificationsRead, IsList, KeepsDismissed
<1>3. IsList(markNotificationRead(l, id)) /\ KeepsDismissed(l, markNotificationRead(l, id))
  BY <1>1 DEF markNotificationRead, IsList, KeepsDismissed
<1>4. IsList(dismissNotification(l, id)) /\ KeepsDismissed(l, dismissNotification(l, id))
  BY <1>1 DEF dismissNotification, IsList, KeepsDismissed
<1>5. IsList(dismissAllNotifications(l, audiences)) /\ KeepsDismissed(l, dismissAllNotifications(l, audiences))
  BY <1>1 DEF dismissAllNotifications, IsList, KeepsDismissed
<1>6. QED
  BY <1>2, <1>3, <1>4, <1>5

LEMMA PruneKeeps ==
    ASSUME NEW l, IsList(l)
    PROVE  /\ IsList(pruneExpiredNotifications(l)) /\ KeepsDismissed(l, pruneExpiredNotifications(l))
           /\ \A i \in DOMAIN pruneExpiredNotifications(l) :
                i \in DOMAIN l /\ pruneExpiredNotifications(l)[i] = l[i]
<1>1. PICK S : S = {i \in DOMAIN l : ~(l[i].expires /\ late)}
  OBVIOUS
<1>2. S \subseteq DOMAIN l /\ IsFiniteSet(S)
  BY <1>1, FS_Subset DEF IsList
<1>3. pruneExpiredNotifications(l) = [i \in S |-> l[i]]
  BY <1>1 DEF pruneExpiredNotifications, Restrict
<1>4. QED
  BY <1>2, <1>3 DEF IsList, KeepsDismissed

\* A definition of the first n seeds for every n, which the recursion needs.
SeedStep(g, n) ==
  IF n = 0 THEN <<>>
  ELSE upsertNotification(g[n - 1], SeedAlerts[n].identity, createNotification(SeedAlerts[n]))

LEMMA SeedsDefined == \A n \in Nat : \E g : g = [k \in 0 .. n |-> SeedStep(g, k)]
<1> DEFINE N == {n \in Nat : \E g : g = [k \in 0 .. n |-> SeedStep(g, k)]}
<1>1. 0 \in N
  <2>1. PICK g : g = [k \in 0 .. 0 |-> <<>>]
    OBVIOUS
  <2>2. g = [k \in 0 .. 0 |-> SeedStep(g, k)]
    BY <2>1 DEF SeedStep
  <2>3. QED
    BY <2>2
<1>2. ASSUME NEW n \in N PROVE n + 1 \in N
  <2>1. PICK g : g = [k \in 0 .. n |-> SeedStep(g, k)]
    OBVIOUS
  <2>2. PICK h : h = [k \in 0 .. n + 1 |-> SeedStep(g, k)]
    OBVIOUS
  <2>3. \A k \in 0 .. n : h[k] = g[k]
    BY <2>1, <2>2
  <2>4. ASSUME NEW k \in 0 .. n + 1 PROVE SeedStep(g, k) = SeedStep(h, k)
    <3>1. CASE k = 0
      BY <3>1 DEF SeedStep
    <3>2. CASE k # 0
      <4>1. k - 1 \in 0 .. n
        BY <3>2
      <4>2. QED
        BY <2>3, <3>2, <4>1 DEF SeedStep
    <3>3. QED
      BY <3>1, <3>2
  <2>5. h = [k \in 0 .. n + 1 |-> SeedStep(h, k)]
    BY <2>2, <2>4
  <2>6. QED
    BY <2>5
<1>3. N = Nat
  <2> HIDE DEF N
  <2>1. N \in SUBSET Nat
    BY DEF N
  <2>2. QED
    BY <1>1, <1>2, <2>1, NaturalsByInduction
<1>4. QED
  BY <1>3

LEMMA SeedsUnfold ==
    \A n \in 0 .. Len(SeedAlerts) : seedsLoaded[n] = SeedStep(seedsLoaded, n)
<1>1. Len(SeedAlerts) \in Nat
  BY NotificationAssumption
<1>2. \E g : g = [k \in 0 .. Len(SeedAlerts) |-> SeedStep(g, k)]
  BY <1>1, SeedsDefined
<1>3. seedsLoaded = CHOOSE g : g = [k \in 0 .. Len(SeedAlerts) |-> SeedStep(g, k)]
  BY Zenon DEF seedsLoaded, SeedStep
<1>4. seedsLoaded = [k \in 0 .. Len(SeedAlerts) |-> SeedStep(seedsLoaded, k)]
  BY <1>2, <1>3, Zenon
<1>5. QED
  BY <1>4

\* The seeds are a list of notices.
LEMMA SeedsFit == IsList(loadSeeds)
<1> DEFINE N == {n \in Nat : n <= Len(SeedAlerts) => IsList(seedsLoaded[n])}
<1>1. Len(SeedAlerts) \in Nat /\ \A n \in 1 .. Len(SeedAlerts) : SeedAlerts[n] \in Alerts
  BY NotificationAssumption
<1>2. 0 \in N
  <2>1. seedsLoaded[0] = <<>>
    BY <1>1, SeedsUnfold DEF SeedStep
  <2>2. IsList(<<>>)
    <3>1. DOMAIN <<>> = {}
      OBVIOUS
    <3>2. QED
      BY <3>1, FS_EmptySet DEF IsList
  <2>3. QED
    BY <2>1, <2>2
<1>3. ASSUME NEW n \in N PROVE n + 1 \in N
  <2> SUFFICES ASSUME n + 1 <= Len(SeedAlerts) PROVE IsList(seedsLoaded[n + 1])
    OBVIOUS
  <2>1. PICK a \in Alerts : a = SeedAlerts[n + 1]
    BY <1>1
  <2>2. PICK l : l = seedsLoaded[n] /\ IsList(l)
    BY <1>1
  <2>3. n + 1 \in 0 .. Len(SeedAlerts) /\ n + 1 # 0 /\ (n + 1) - 1 = n
    BY <1>1
  <2>4. seedsLoaded[n + 1] = upsertNotification(l, a.identity, createNotification(a))
    BY <2>1, <2>2, <2>3, SeedsUnfold DEF SeedStep
  <2>5. QED
    BY <2>2, <2>4, CreatedFits, UpsertKeeps
<1>4. N = Nat
  <2> HIDE DEF N
  <2>1. N \in SUBSET Nat
    BY DEF N
  <2>2. QED
    BY <1>2, <1>3, <2>1, NaturalsByInduction
<1>5. QED
  BY <1>1, <1>4 DEF loadSeeds

\* A page that is loaded again has every seed as it is remembered, except what expired.
LEMMA HydratedFits ==
    ASSUME NEW key
    PROVE  /\ IsList(Hydrated(key))
           /\ \A i \in DOMAIN Hydrated(key) :
                /\ i \in remembered[key].dismissedIds => Hydrated(key)[i].dismissed
                /\ i \in remembered[key].readIds => Hydrated(key)[i].status = "read"
<1>1. PICK m : m = [i \in DOMAIN loadSeeds |->
                      [loadSeeds[i] EXCEPT
                         !.status = IF i \in remembered[key].readIds THEN "read" ELSE @,
                         !.dismissed = @ \/ i \in remembered[key].dismissedIds]]
  OBVIOUS
<1>2. DOMAIN m = DOMAIN loadSeeds
  BY <1>1
<1>3. ASSUME NEW i \in DOMAIN loadSeeds
      PROVE  /\ m[i] \in Notice
             /\ i \in remembered[key].dismissedIds => m[i].dismissed
             /\ i \in remembered[key].readIds => m[i].status = "read"
  <2>1. PICK x \in Notice : x = loadSeeds[i]
    BY SeedsFit DEF IsList
  <2>2. (x.dismissed \/ i \in remembered[key].dismissedIds) \in BOOLEAN
        /\ (IF i \in remembered[key].readIds THEN "read" ELSE x.status) \in {"read", "unread"}
    BY DEF Notice
  <2>3. PICK d \in BOOLEAN, s \in {"read", "unread"} :
          d = (x.dismissed \/ i \in remembered[key].dismissedIds)
          /\ s = IF i \in remembered[key].readIds THEN "read" ELSE x.status
    BY <2>2
  <2>4. m[i] = [x EXCEPT !.status = s, !.dismissed = d]
    BY <1>1, <2>1, <2>3
  <2>5. [x EXCEPT !.status = s, !.dismissed = d] \in Notice
        /\ [x EXCEPT !.status = s, !.dismissed = d].status = s /\ [x EXCEPT !.status = s, !.dismissed = d].dismissed = d
    BY DEF Notice
  <2>6. QED
    BY <2>3, <2>4, <2>5
<1>4. IsList(m)
  BY <1>2, <1>3, SeedsFit DEF IsList
<1>5. Hydrated(key) = pruneExpiredNotifications(m)
  BY <1>1 DEF Hydrated
<1>6. QED
  BY <1>2, <1>3, <1>4, <1>5, PruneKeeps

\* Every page has a list, and while nobody else has written under its key the
\* key holds what the page shows.
PagesRemembered ==
    /\ DOMAIN notices = Pages /\ \A p \in Pages : IsList(notices[p])
    /\ scopeKey \in [Pages -> AccountKeys] /\ DOMAIN remembered = AccountKeys /\ DOMAIN lastWrote = AccountKeys
    /\ \A p \in Pages : lastWrote[scopeKey[p]] = p => remembered[scopeKey[p]] = StoredIds(notices[p])

\* One page shows another list, under the key it has or one it is given.
LEMMA PageWrites ==
    ASSUME PagesRemembered, NEW p \in Pages, NEW list, IsList(list), NEW key \in AccountKeys,
           DOMAIN notices' = Pages, notices'[p] = list, \A q \in Pages : q # p => notices'[q] = notices[q],
           scopeKey' = [scopeKey EXCEPT ![p] = key], Remember(p, list, key)
    PROVE  PagesRemembered'
<1>1. DOMAIN notices' = Pages /\ notices'[p] = list /\ \A q \in Pages : q # p => notices'[q] = notices[q]
  OBVIOUS
<1>2. scopeKey' \in [Pages -> AccountKeys] /\ scopeKey'[p] = key /\ \A q \in Pages : q # p => scopeKey'[q] = scopeKey[q]
  BY DEF PagesRemembered
<1>3. DOMAIN remembered' = AccountKeys /\ remembered'[key] = StoredIds(list)
      /\ \A k \in AccountKeys : k # key => remembered'[k] = remembered[k]
  BY DEF PagesRemembered, Remember
<1>4. DOMAIN lastWrote' = AccountKeys /\ lastWrote'[key] = p
      /\ \A k \in AccountKeys : k # key => lastWrote'[k] = lastWrote[k]
  BY DEF PagesRemembered, Remember
<1>5. ASSUME NEW q \in Pages, lastWrote'[scopeKey'[q]] = q
      PROVE  remembered'[scopeKey'[q]] = StoredIds(notices'[q])
  <2>1. CASE q = p
    BY <1>1, <1>2, <1>3, <2>1
  <2>2. CASE q # p
    <3>1. scopeKey[q] # key /\ scopeKey[q] \in AccountKeys
      BY <1>2, <1>4, <1>5, <2>2
    <3>2. lastWrote[scopeKey[q]] = q
      BY <1>2, <1>4, <1>5, <2>2, <3>1
    <3>3. remembered[scopeKey[q]] = StoredIds(notices[q])
      BY <3>2 DEF PagesRemembered
    <3>4. QED
      BY <1>1, <1>2, <1>3, <2>2, <3>1, <3>3
  <2>3. QED
    BY <2>1, <2>2
<1>6. \A q \in Pages : IsList(notices'[q])
  BY <1>1 DEF PagesRemembered
<1>7. \A q \in Pages : StoredIds(notices[q])' = StoredIds(notices'[q])
  BY DEF StoredIds
<1>8. \A q \in Pages : IsList(notices[q])' = IsList(notices'[q])
  BY DEF IsList
<1>9. QED
  BY <1>1, <1>2, <1>3, <1>4, <1>5, <1>6, <1>7, <1>8 DEF PagesRemembered

\* A step of the center: an alert expires, a page is loaded or given a key, or a
\* page's list is marked, which keeps what is dismissed.
Marked(p, list) == IsList(list) /\ KeepsDismissed(notices[p], list) /\ Show(p, list)

LEMMA NoticeSteps ==
    ASSUME PagesRemembered, [NoticeNext]_noticeVars
    PROVE  \/ UNCHANGED <<notices, scopeKey, remembered, lastWrote>>
           \/ \E p \in Pages : \/ ReopenPage(p)
                               \/ \E k \in AccountKeys : SwitchScope(p, k)
                               \/ \E list : Marked(p, list)
<1>1. \A p \in Pages : IsList(notices[p])
  BY DEF PagesRemembered
<1>2. ASSUME NEW p \in Pages, markAllRead(p) \/ clearExpired(p) PROVE \E list : Marked(p, list)
  BY <1>1, <1>2, MarksKeep, PruneKeeps DEF markAllRead, clearExpired, Marked
<1>3. ASSUME NEW p \in Pages, NEW i, markRead(p, i) \/ dismiss(p, i) PROVE \E list : Marked(p, list)
  BY <1>1, <1>3, MarksKeep DEF markRead, dismiss, Marked
<1>4. ASSUME NEW p \in Pages, NEW s, dismissAll(p, s) PROVE \E list : Marked(p, list)
  BY <1>1, <1>4, MarksKeep DEF dismissAll, Marked
<1>5. ASSUME NEW p \in Pages, NEW a \in AlertInputs, dispatchAlert(p, a) PROVE \E list : Marked(p, list)
  <2>1. createNotification(a) \in Notice
    BY NotificationAssumption, CreatedFits
  <2>2. IsList(upsertNotification(notices[p], a.identity, createNotification(a)))
        /\ KeepsDismissed(notices[p], upsertNotification(notices[p], a.identity, createNotification(a)))
    BY <1>1, <2>1, UpsertKeeps
  <2>3. QED
    BY <1>5, <2>2 DEF dispatchAlert, Marked
<1>6. QED
  BY <1>2, <1>3, <1>4, <1>5 DEF NoticeNext, noticeVars, Expire

LEMMA PagesRememberedStep == PagesRemembered /\ [NoticeNext]_noticeVars => PagesRemembered'
<1> SUFFICES ASSUME PagesRemembered, [NoticeNext]_noticeVars PROVE PagesRemembered'
  OBVIOUS
<1>1. CASE UNCHANGED <<notices, scopeKey, remembered, lastWrote>>
  BY <1>1 DEF PagesRemembered, IsList, StoredIds
<1>2. ASSUME NEW p \in Pages, ReopenPage(p) PROVE PagesRemembered'
  <2>1. scopeKey' = [scopeKey EXCEPT ![p] = scopeKey[p]] /\ scopeKey[p] \in AccountKeys
    BY <1>2 DEF PagesRemembered, ReopenPage
  <2>2. PICK list : list = Hydrated(scopeKey[p])
    OBVIOUS
  <2>3. DOMAIN notices' = Pages /\ notices'[p] = list /\ \A q \in Pages : q # p => notices'[q] = notices[q]
    BY <1>2, <2>2 DEF PagesRemembered, ReopenPage
  <2>4. IsList(list) /\ Remember(p, list, scopeKey[p])
    BY <1>2, <2>1, <2>2, HydratedFits DEF ReopenPage
  <2>5. QED
    BY <2>1, <2>3, <2>4, PageWrites
<1>3. ASSUME NEW p \in Pages, NEW k \in AccountKeys, SwitchScope(p, k) PROVE PagesRemembered'
  <2>1. DOMAIN notices' = Pages /\ notices' = notices /\ IsList(notices[p])
    BY <1>3 DEF PagesRemembered, SwitchScope
  <2>2. QED
    BY <1>3, <2>1, PageWrites DEF SwitchScope
<1>4. ASSUME NEW p \in Pages, NEW list, Marked(p, list) PROVE PagesRemembered'
  <2>1. scopeKey' = [scopeKey EXCEPT ![p] = scopeKey[p]] /\ scopeKey[p] \in AccountKeys
    BY <1>4 DEF PagesRemembered, Marked, Show
  <2>2. DOMAIN notices' = Pages /\ notices'[p] = list /\ \A q \in Pages : q # p => notices'[q] = notices[q]
    BY <1>4 DEF PagesRemembered, Marked, Show
  <2>3. IsList(list) /\ Remember(p, list, scopeKey[p])
    BY <1>4 DEF Marked, Show
  <2>4. QED
    BY <2>1, <2>2, <2>3, PageWrites
<1>5. QED
  BY <1>1, <1>2, <1>3, <1>4, NoticeSteps

LEMMA PagesRememberedHold == NoticeSpec => []PagesRemembered
<1>1. NoticeInit => PagesRemembered
  BY SeedsFit, NotificationAssumption DEF NoticeInit, PagesRemembered
<1>2. QED
  BY <1>1, PagesRememberedStep, PTL DEF NoticeSpec

\* Marking a list dismisses and never takes back.
LEMMA DismissalsStay == PagesRemembered /\ [NoticeNext]_noticeVars => DismissedStaysDismissed
<1> SUFFICES ASSUME PagesRemembered, [NoticeNext]_noticeVars, NEW p \in Pages, NEW i \in Identified(p),
                    notices[p][i].dismissed, ~ notices'[p][i].dismissed
             PROVE  ReopenPage(p)
  BY DEF DismissedStaysDismissed
<1>1. notices'[p] # notices[p]
  OBVIOUS
<1>2. ASSUME NEW q \in Pages, NEW list, Marked(q, list) PROVE FALSE
  <2>1. notices' = [notices EXCEPT ![q] = list] /\ KeepsDismissed(notices[q], list) /\ DOMAIN notices = Pages
    BY <1>2 DEF Marked, Show, PagesRemembered
  <2>2. q = p /\ notices'[p] = list
    BY <1>1, <2>1
  <2>3. QED
    BY <2>1, <2>2 DEF KeepsDismissed, Identified
<1>3. ASSUME NEW q \in Pages, ReopenPage(q) PROVE q = p
  BY <1>1, <1>3 DEF ReopenPage, PagesRemembered
<1>4. QED
  BY <1>1, <1>2, <1>3, NoticeSteps DEF SwitchScope

\* What a page shows, it finds again.
LEMMA ReloadsRemember == PagesRemembered => ReloadRemembers
<1> SUFFICES ASSUME PagesRemembered, NEW p \in Pages, lastWrote[scopeKey[p]] = p, ReopenPage(p), NEW i \in Identified(p)
             PROVE  /\ notices[p][i].dismissed => notices'[p][i].dismissed
                    /\ notices[p][i].status = "read" => notices'[p][i].status = "read"
  BY DEF ReloadRemembers
<1>1. remembered[scopeKey[p]] = StoredIds(notices[p])
  BY DEF PagesRemembered
<1>2. notices'[p] = Hydrated(scopeKey[p])
  BY DEF PagesRemembered, ReopenPage
<1>3. i \in DOMAIN notices[p] /\ i \in DOMAIN Hydrated(scopeKey[p])
  BY <1>2 DEF Identified
<1>4. notices[p][i].dismissed => i \in remembered[scopeKey[p]].dismissedIds
  BY <1>1, <1>3 DEF StoredIds
<1>5. notices[p][i].status = "read" => i \in remembered[scopeKey[p]].readIds
  BY <1>1, <1>3 DEF StoredIds
<1>6. QED
  BY <1>2, <1>3, <1>4, <1>5, HydratedFits

\* Under every filter the page shows at least what the badge counts.
LEMMA CountsAreShown == PagesRemembered => CountedIsVisible
<1> SUFFICES ASSUME PagesRemembered, NEW p \in Pages, NEW unreadOnly \in BOOLEAN, NEW withDismissed \in BOOLEAN
             PROVE  countUnread(notices[p])
                      <= Cardinality(visibleNotifications(notices[p], unreadOnly, withDismissed))
  BY DEF CountedIsVisible
<1>1. IsFiniteSet(DOMAIN notices[p])
  BY DEF PagesRemembered, IsList
<1>2. PICK V : V = visibleNotifications(notices[p], unreadOnly, withDismissed)
  OBVIOUS
<1>3. PICK U : U = {i \in DOMAIN notices[p] : notices[p][i].status = "unread" /\ ~notices[p][i].dismissed}
  OBVIOUS
<1>4. U \subseteq V /\ V \subseteq DOMAIN notices[p]
  BY <1>2, <1>3 DEF visibleNotifications
<1>5. IsFiniteSet(V)
  BY <1>1, <1>4, FS_Subset
<1>6. Cardinality(U) <= Cardinality(V)
  BY <1>4, <1>5, FS_Subset
<1>7. QED
  BY <1>2, <1>3, <1>6 DEF countUnread

\* What the user decided stays decided, for any tabs, pages, alerts, listings and
\* toasts: a check of the extension does not adopt the address the user
\* disconnected, dismissed alerts and read ones stay so, decisions on listings
\* stand and the toast of an error waits for the visitor.
THEOREM ChoicesAreKept == TabSpec /\ NoticeSpec /\ OpsSpec /\ TimedSpec => ChoicesStand
<1>1. PartedIsSuppressed /\ PagesRemembered /\ OpsShape /\ ErrorsNeverExpire /\ [NoticeNext]_noticeVars /\ [OpsNext]_opsVars
      => [/\ CheckNeverReadopts
          /\ DismissedStaysDismissed
          /\ ReloadRemembers
          /\ DecisionStands
          /\ ErrorToastStays]_mcVars
  BY CheckAvoidsParted, DismissalsStay, ReloadsRemember, OpsShapeStep, NoErrorTimesOut
<1>2. QED
  BY <1>1, PartedIsSuppressedHolds, PagesRememberedHold, OpsShapeHolds, ErrorsNeverExpireHolds, PTL
  DEF ChoicesStand, NoticeSpec, OpsSpec

-----------------------------------------------------------------------------
(* The transaction flow.                                                     *)

LEMMA FiveStages ==
    ActiveStages = {"preparing", "awaiting-signature", "submitting", "confirming", "indexing"}
<1>1. \A i \in 1 .. 5 : i = 1 \/ i = 2 \/ i = 3 \/ i = 4 \/ i = 5
  OBVIOUS
<1>2. 1 \in 1 .. 5 /\ 2 \in 1 .. 5 /\ 3 \in 1 .. 5 /\ 4 \in 1 .. 5 /\ 5 \in 1 .. 5
  OBVIOUS
<1>3. STAGE_ORDER[1] = "preparing" /\ STAGE_ORDER[2] = "awaiting-signature" /\ STAGE_ORDER[3] = "submitting"
      /\ STAGE_ORDER[4] = "confirming" /\ STAGE_ORDER[5] = "indexing"
  BY DEF STAGE_ORDER
<1>4. QED
  BY <1>1, <1>2, <1>3 DEF ActiveStages

\* The moves that the pool page makes, each from the stage in which it makes it.
LEMMA TxMoves ==
    ASSUME NEW s, NEW h
    PROVE  /\ ~ isActiveState(s) => Started(s) = At("awaiting-signature", 0)
           /\ s.stage = "awaiting-signature" =>
                transitionTxState(transitionTxState(s, "SUBMITTED", h), "CONFIRMING", h) = At("confirming", h)
           /\ s.stage = "confirming" => transitionTxState(s, "INDEXING", h) = At("indexing", h)
           /\ s.stage = "indexing" => transitionTxState(s, "SUCCEEDED", h) = At("success", h)
           /\ isActiveState(s) => transitionTxState(s, "FAILED", h).stage = "failed"
           /\ transitionTxState(s, "RESET", 0) = IF isActiveState(s) THEN s ELSE InitialFlow
<1>1. \A x : /\ isActiveState(x) <=> x.stage \in {"preparing", "awaiting-signature", "submitting", "confirming", "indexing"}
             /\ \A e, a : At(e, a).stage = e
  BY FiveStages DEF isActiveState, At
<1>2. ~ isActiveState(s) => transitionTxState(s, "START", 0) = At("preparing", 0)
  BY DEF transitionTxState
<1>3. transitionTxState(At("preparing", 0), "AWAIT_SIGNATURE", 0) = At("awaiting-signature", 0)
  BY <1>1 DEF transitionTxState
<1>4. s.stage = "awaiting-signature" => transitionTxState(s, "SUBMITTED", h) = At("submitting", h)
  BY DEF transitionTxState
<1>5. transitionTxState(At("submitting", h), "CONFIRMING", h) = At("confirming", h)
  BY <1>1 DEF transitionTxState
<1>6. s.stage = "confirming" => transitionTxState(s, "INDEXING", h) = At("indexing", h)
  BY DEF transitionTxState
<1>7. s.stage = "indexing" => transitionTxState(s, "SUCCEEDED", h) = At("success", h)
  BY DEF transitionTxState
<1>8. isActiveState(s) => transitionTxState(s, "FAILED", h).stage = "failed"
  BY DEF transitionTxState, At
<1>9. transitionTxState(s, "RESET", 0) = IF isActiveState(s) THEN s ELSE InitialFlow
  BY DEF transitionTxState
<1>10. QED
  BY <1>2, <1>3, <1>4, <1>5, <1>6, <1>7, <1>8, <1>9 DEF Started

\* Where a run waits, the stage says so; a confirmed stage is that of a
\* transaction that landed.
TxShape ==
    /\ chain \in Seq({"sent", "landed", "reverted"})
    /\ \/ running = "none" /\ flow.stage \in {"idle", "success", "failed"}
       \/ running \in {"signing", "recovering"} /\ flow.stage = "awaiting-signature"
       \/ running = "waiting" /\ flow.stage = "confirming"
       \/ running = "indexing" /\ flow.stage = "indexing"
    /\ flow.stage \in {"confirming", "indexing", "success"} => flow.hash \in DOMAIN chain
    /\ waits /\ flow.stage \in {"indexing", "success"} => chain[flow.hash] = "landed"

\* A stage with no transaction to speak of.
LEMMA TxQuiet ==
    ASSUME TxShape, waits' = waits, chain' \in Seq({"sent", "landed", "reverted"}),
           \/ running' = "none" /\ flow'.stage \in {"idle", "failed"}
           \/ running' \in {"signing", "recovering"} /\ flow'.stage = "awaiting-signature"
    PROVE  TxShape'
BY DEF TxShape

\* A transaction more.
LEMMA ChainGrows ==
    ASSUME TxShape
    PROVE  /\ Append(chain, "sent") \in Seq({"sent", "landed", "reverted"})
           /\ Len(chain) + 1 \in DOMAIN Append(chain, "sent")
           /\ \A h \in DOMAIN chain : h \in DOMAIN Append(chain, "sent") /\ Append(chain, "sent")[h] = chain[h]
<1>1. chain \in Seq({"sent", "landed", "reverted"})
  BY DEF TxShape
<1>2. QED
  BY <1>1, AppendProperties

LEMMA TxShapeStep == TxShape /\ [TxNext]_txVars => TxShape'
<1> SUFFICES ASSUME TxShape, [TxNext]_txVars PROVE TxShape'
  OBVIOUS
<1>1. chain \in Seq({"sent", "landed", "reverted"})
      /\ \A s : isActiveState(s) <=> s.stage \in {"preparing", "awaiting-signature", "submitting", "confirming", "indexing"}
  BY FiveStages DEF TxShape, isActiveState
<1>2. InitialFlow.stage = "idle" /\ \A e, a : At(e, a).stage = e /\ At(e, a).hash = a
  BY DEF InitialFlow, At
<1>3. ASSUME NEW kind, Failed(kind), isActiveState(flow) PROVE running' = "none" /\ flow'.stage = "failed"
  BY <1>3, TxMoves DEF Failed
<1>4. CASE run
  <2>1. ~ isActiveState(flow) /\ flow' = Started(flow) /\ running' = "signing" /\ UNCHANGED <<waits, chain>>
    BY <1>4 DEF run
  <2>2. flow' = At("awaiting-signature", 0)
    BY <2>1, TxMoves
  <2>3. QED
    BY <1>1, <1>2, <2>1, <2>2, TxQuiet
<1>5. CASE SubmitFails
  <2>1. running = "signing" /\ waits' = waits /\ \E kind : Failed(kind)
    BY <1>5 DEF SubmitFails
  <2>2. chain' = chain \/ chain' = Append(chain, "sent")
    BY <1>5 DEF SubmitFails
  <2>3. isActiveState(flow)
    BY <1>1, <2>1 DEF TxShape
  <2>4. QED
    BY <1>1, <1>3, <2>1, <2>2, <2>3, TxQuiet, ChainGrows
<1>6. CASE Submitted
  <2>1. PICK h \in Nat : h = Len(chain) + 1
    BY <1>1
  <2>2. running = "signing" /\ waits' = waits /\ chain' = Append(chain, "sent")
    BY <1>6 DEF Submitted
  <2>3. flow.stage = "awaiting-signature"
    BY <2>2 DEF TxShape
  <2>4. \/ flow' = At("confirming", h) /\ running' = "waiting"
        \/ ~waits /\ flow' = At("indexing", h) /\ running' = "indexing"
        \/ running' = "none" /\ flow'.stage = "failed"
    <3>1. PICK c : /\ c = transitionTxState(transitionTxState(flow, "SUBMITTED", h), "CONFIRMING", h)
                   /\ c = At("confirming", h) /\ c.stage = "confirming"
      BY <1>2, <2>3, TxMoves
    <3>2. /\ transitionTxState(c, "INDEXING", h) = At("indexing", h)
          /\ \A a : transitionTxState(c, "FAILED", a).stage = "failed"
      <4>1. isActiveState(c)
        BY <1>1, <3>1
      <4>2. QED
        BY <3>1, <4>1, TxMoves
    <3>3. \/ flow' = c /\ running' = "waiting"
          \/ ~waits /\ flow' = transitionTxState(c, "INDEXING", h) /\ running' = "indexing"
          \/ running' = "none" /\ \E a : flow' = transitionTxState(c, "FAILED", a)
      BY <1>6, <2>1, <3>1 DEF Submitted
    <3>4. QED
      BY <3>1, <3>2, <3>3
  <2>5. h \in DOMAIN chain' /\ chain' \in Seq({"sent", "landed", "reverted"})
    BY <2>1, <2>2, ChainGrows
  <2>6. CASE running' = "none" /\ flow'.stage = "failed"
    BY <2>2, <2>5, <2>6, TxQuiet
  <2>7. QED
    BY <1>2, <2>2, <2>4, <2>5, <2>6 DEF TxShape
<1>7. CASE Confirmed
  <2>1. running = "waiting" /\ chain[flow.hash] = "landed" /\ waits' = waits /\ chain' = chain /\ running' = "indexing"
        /\ flow.stage = "confirming"
    BY <1>7 DEF Confirmed, Settled, TxShape
  <2>2. flow' = At("indexing", flow.hash)
    BY <1>7, <2>1, TxMoves DEF Confirmed
  <2>3. QED
    BY <1>2, <2>1, <2>2 DEF TxShape
<1>8. CASE ConfirmFails
  <2>1. running = "waiting" /\ waits' = waits /\ chain' = chain /\ \E kind : Failed(kind)
    BY <1>8 DEF ConfirmFails
  <2>2. isActiveState(flow)
    BY <1>1, <2>1 DEF TxShape
  <2>3. QED
    BY <1>1, <1>3, <2>1, <2>2, TxQuiet
<1>9. CASE Indexed
  <2>1. running = "indexing" /\ waits' = waits /\ chain' = chain /\ running' = "none" /\ flow.stage = "indexing"
    BY <1>9 DEF Indexed, TxShape
  <2>2. flow' = At("success", flow.hash)
    BY <1>9, <2>1, TxMoves DEF Indexed
  <2>3. QED
    BY <1>2, <2>1, <2>2 DEF TxShape
<1>10. CASE reset
  <2>1. flow' = (IF isActiveState(flow) THEN flow ELSE InitialFlow) /\ UNCHANGED <<running, waits, chain>>
    BY <1>10, TxMoves DEF reset
  <2>2. CASE isActiveState(flow)
    BY <2>1, <2>2 DEF TxShape
  <2>3. CASE ~ isActiveState(flow)
    BY <1>1, <1>2, <2>1, <2>3 DEF TxShape
  <2>4. QED
    BY <2>2, <2>3
<1>11. CASE Render
  <2>1. waits' = waits /\ chain' = chain
    BY <1>11 DEF Render
  <2>2. CASE scope # wallet /\ Recovers(wallet)
    <3>1. running = "none" /\ flow' = Started(transitionTxState(flow, "RESET", 0)) /\ running' = "recovering"
      BY <1>11, <2>2 DEF Render, Recovers
    <3>2. ~ isActiveState(flow) /\ ~ isActiveState(InitialFlow)
      BY <1>1, <1>2, <3>1 DEF TxShape
    <3>3. flow' = At("awaiting-signature", 0)
      BY <3>1, <3>2, TxMoves
    <3>4. QED
      BY <1>1, <1>2, <2>1, <3>1, <3>3, TxQuiet
  <2>3. CASE ~ (scope # wallet /\ Recovers(wallet))
    BY <1>11, <2>1, <2>3 DEF Render, TxShape
  <2>4. QED
    BY <2>2, <2>3
<1>12. CASE RecoveryShown
  <2>1. running = "recovering" /\ waits' = waits /\ chain' = chain /\ \E kind : Failed(kind)
    BY <1>12 DEF RecoveryShown
  <2>2. isActiveState(flow)
    BY <1>1, <2>1 DEF TxShape
  <2>3. QED
    BY <1>1, <1>3, <2>1, <2>2, TxQuiet
<1>13. ASSUME NEW w \in Scopes, Reopen(w) PROVE TxShape'
  <2>1. ~ isActiveState(InitialFlow)
    BY <1>1, <1>2
  <2>2. waits' = waits /\ chain' = chain
        /\ \/ flow' = At("awaiting-signature", 0) /\ running' = "recovering"
           \/ flow' = InitialFlow /\ running' = "none"
    BY <1>13, <2>1, TxMoves DEF Reopen
  <2>3. QED
    BY <1>1, <1>2, <2>2, TxQuiet
<1>14. ASSUME NEW h \in DOMAIN chain, ChainSettles(h) PROVE TxShape'
  <2>1. PICK outcome \in {"landed", "reverted"} : chain' = [chain EXCEPT ![h] = outcome]
    BY <1>14 DEF ChainSettles
  <2>2. chain' \in Seq({"sent", "landed", "reverted"}) /\ DOMAIN chain' = DOMAIN chain
    BY <1>1, <2>1
  <2>3. \A k \in DOMAIN chain : chain[k] = "landed" => chain'[k] = "landed"
    BY <1>14, <2>1 DEF ChainSettles
  <2>4. UNCHANGED <<flow, running, waits>>
    BY <1>14 DEF ChainSettles
  <2>5. QED
    BY <2>2, <2>3, <2>4 DEF TxShape
<1>15. CASE UNCHANGED <<flow, running, waits, chain>>
  BY <1>15 DEF TxShape
<1>16. QED
  BY <1>4, <1>5, <1>6, <1>7, <1>8, <1>9, <1>10, <1>11, <1>12, <1>13, <1>14, <1>15
  DEF TxNext, txVars, SwitchWallet

LEMMA TxShapeHolds == TxSpec => []TxShape
<1>1. TxInit => TxShape
  <2> SUFFICES ASSUME TxInit PROVE TxShape
    OBVIOUS
  <2>1. chain = <<>> /\ running = "none" /\ flow.stage = "idle"
    BY DEF TxInit, InitialFlow
  <2>2. QED
    BY <2>1 DEF TxShape
<1>2. QED
  BY <1>1, TxShapeStep, PTL DEF TxSpec

\* The slot of the rendered scope follows the screen.
SlotFollows ==
    /\ DOMAIN records = Scopes /\ scope \in Scopes /\ wallet \in Scopes
    /\ records[scope] = IF isActiveState(shown) THEN Recorded(shown) ELSE NoRecord

LEMMA SlotFollowsStep == SlotFollows /\ [TxNext]_txVars => SlotFollows'
<1> SUFFICES ASSUME SlotFollows, [TxNext]_txVars PROVE SlotFollows'
  OBVIOUS
<1>1. ASSUME NEW w \in Scopes, NEW state, records' = Persisted(w, state)
      PROVE  DOMAIN records' = Scopes /\ records'[w] = IF isActiveState(state) THEN Recorded(state) ELSE NoRecord
  BY <1>1 DEF SlotFollows, Persisted
<1>2. CASE Render
  <2>1. records' = Persisted(wallet, flow) /\ shown' = flow /\ scope' = wallet /\ wallet' = wallet /\ wallet \in Scopes
    BY <1>2 DEF Render, SlotFollows
  <2>2. QED
    BY <1>1, <2>1 DEF SlotFollows
<1>3. ASSUME NEW w \in Scopes, Reopen(w) PROVE SlotFollows'
  <2>1. records' = Persisted(w, InitialFlow) /\ shown' = InitialFlow /\ scope' = w /\ wallet' = w
    BY <1>3 DEF Reopen
  <2>2. QED
    BY <1>1, <2>1 DEF SlotFollows
<1>4. CASE UNCHANGED <<records, scope, wallet, shown>>
  BY <1>4 DEF SlotFollows
<1>5. ASSUME NEW w \in Scopes, SwitchWallet(w) PROVE SlotFollows'
  BY <1>5 DEF SwitchWallet, SlotFollows
<1>6. QED
  BY <1>2, <1>3, <1>4, <1>5
  DEF TxNext, txVars, run, SubmitFails, Submitted, Confirmed, ConfirmFails, Indexed, reset, RecoveryShown, ChainSettles

LEMMA SlotFollowsHolds == TxSpec => []SlotFollows
<1>1. TxInit => SlotFollows
  <2> SUFFICES ASSUME TxInit PROVE SlotFollows
    OBVIOUS
  <2>1. ~ isActiveState(InitialFlow)
    BY FiveStages DEF isActiveState, InitialFlow
  <2>2. QED
    BY <2>1 DEF TxInit, SlotFollows
<1>2. QED
  BY <1>1, SlotFollowsStep, PTL DEF TxSpec

-----------------------------------------------------------------------------
(* The retry queue.                                                          *)

QueueRow ==
    [present : BOOLEAN, status : {"failed", "pending"},
     retryState : {"idle", "retrying", "scheduled", "resolved", "exhausted"},
     retryCount : Nat, serverStatus : {"failed", "confirmed", "submitted"}]

QueueAttempt == [at : {"none", "checking", "submitting"}, count : Nat, serverStatus : {"failed", "confirmed", "submitted"}]

\* A row that waits for its backoff has its timer, and a row with a retry under
\* way has none.
BackoffShape ==
    /\ rows \in [Queued -> QueueRow] /\ rendered \in [Queued -> QueueRow]
    /\ attempt \in [Queued -> QueueAttempt]
    /\ DOMAIN timers = Queued
    /\ \A a \in Queued : attempt[a].at # "none" => timers[a] # "retry"
    /\ BackoffIsPending

\* The row a change leaves, and what stays of it.
LEMMA StateChanges ==
    ASSUME NEW r \in QueueRow, NEW state \in {"idle", "retrying", "scheduled", "resolved", "exhausted"}
    PROVE  \E row \in QueueRow :
             row = [r EXCEPT !.retryState = state] /\ row.present = r.present /\ row.retryState = state
<1>1. PICK row : row = [r EXCEPT !.retryState = state]
  OBVIOUS
<1>2. row \in QueueRow /\ row.present = r.present /\ row.retryState = state
  BY <1>1 DEF QueueRow
<1>3. QED
  BY <1>1, <1>2

LEMMA SubmitChanges ==
    ASSUME NEW r \in QueueRow, NEW c \in Nat
    PROVE  \E row \in QueueRow :
             /\ row = [r EXCEPT !.status = "pending", !.retryState = "idle", !.retryCount = c, !.serverStatus = "submitted"]
             /\ row.present = r.present /\ row.retryState = "idle"
<1>1. PICK row : row = [r EXCEPT !.status = "pending", !.retryState = "idle", !.retryCount = c, !.serverStatus = "submitted"]
  OBVIOUS
<1>2. row \in QueueRow /\ row.present = r.present /\ row.retryState = "idle"
  BY <1>1 DEF QueueRow
<1>3. QED
  BY <1>1, <1>2

LEMMA CancelChanges ==
    ASSUME NEW r \in QueueRow
    PROVE  \E row \in QueueRow :
             row = [r EXCEPT !.status = "failed"] /\ row.present = r.present /\ row.retryState = r.retryState
<1>1. PICK row : row = [r EXCEPT !.status = "failed"]
  OBVIOUS
<1>2. row \in QueueRow /\ row.present = r.present /\ row.retryState = r.retryState
  BY <1>1 DEF QueueRow
<1>3. QED
  BY <1>1, <1>2

LEMMA DismissChanges ==
    ASSUME NEW r \in QueueRow
    PROVE  \E row \in QueueRow : row = [r EXCEPT !.present = FALSE] /\ ~ row.present
<1>1. PICK f \in BOOLEAN : f = FALSE
  OBVIOUS
<1>2. PICK row : row = [r EXCEPT !.present = f]
  OBVIOUS
<1>3. row \in QueueRow /\ ~ row.present
  BY <1>1, <1>2 DEF QueueRow
<1>4. QED
  BY <1>1, <1>2, <1>3

\* One row is changed, its timer and its retry with it.
LEMMA QueueWrites ==
    ASSUME BackoffShape, NEW a \in Queued, NEW row \in QueueRow, NEW timer, NEW try \in QueueAttempt,
           rows' = updateAction(a, row), timers' = [timers EXCEPT ![a] = timer], attempt' = [attempt EXCEPT ![a] = try],
           row.present = rows[a].present, try.at # "none" => timer # "retry",
           row.present => (row.retryState = "scheduled" <=> timer = "retry"),
           rendered' \in [Queued -> QueueRow]
    PROVE  BackoffShape'
<1>1. PICK new \in QueueRow : new = IF rows[a].present THEN row ELSE rows[a]
  BY DEF BackoffShape
<1>2. rows' = [rows EXCEPT ![a] = new]
  BY <1>1 DEF updateAction
<1>3. rows' \in [Queued -> QueueRow] /\ rows'[a] = new /\ \A b \in Queued : b # a => rows'[b] = rows[b]
  BY <1>2 DEF BackoffShape
<1>4. DOMAIN timers' = Queued /\ timers'[a] = timer /\ \A b \in Queued : b # a => timers'[b] = timers[b]
  BY DEF BackoffShape
<1>5. attempt' \in [Queued -> QueueAttempt] /\ attempt'[a] = try /\ \A b \in Queued : b # a => attempt'[b] = attempt[b]
  BY DEF BackoffShape
<1>6. \A b \in Queued : attempt'[b].at # "none" => timers'[b] # "retry"
  BY <1>4, <1>5 DEF BackoffShape
<1>7. \A b \in Queued : rows'[b].present => (rows'[b].retryState = "scheduled" <=> timers'[b] = "retry")
  BY <1>1, <1>3, <1>4 DEF BackoffShape, BackoffIsPending
<1>8. QED
  BY <1>3, <1>4, <1>5, <1>6, <1>7 DEF BackoffShape, BackoffIsPending

LEMMA BeginKeeps ==
    ASSUME BackoffShape, NEW a \in Queued, Begin(a), rendered' = rows' \/ rendered' = rendered
    PROVE  BackoffShape'
<1>1. PICK r \in QueueRow : r = rows[a]
  BY DEF BackoffShape
<1>2. PICK row \in QueueRow : row = [r EXCEPT !.retryState = "retrying"]
           /\ row.present = r.present /\ row.retryState = "retrying"
  BY StateChanges
<1>3. row.present = rows[a].present /\ row.retryState = "retrying"
  BY <1>1, <1>2
<1>4. PICK old \in QueueRow : old = rendered[a]
  BY DEF BackoffShape
<1>5. PICK try \in QueueAttempt : try = [at |-> "checking", count |-> old.retryCount, serverStatus |-> old.serverStatus]
  BY DEF QueueRow, QueueAttempt
<1>6. attempt' = [attempt EXCEPT ![a] = try]
  BY <1>4, <1>5 DEF Begin
<1>7. rows' = updateAction(a, row) /\ timers' = [timers EXCEPT ![a] = "none"]
  BY <1>1, <1>2 DEF Begin
<1>8. rows' \in [Queued -> QueueRow]
  BY <1>7 DEF BackoffShape, updateAction
<1>9. rendered' \in [Queued -> QueueRow]
  BY <1>8 DEF BackoffShape
<1>10. QED
  BY ONLY BackoffShape, a \in Queued, row \in QueueRow, try \in QueueAttempt, <1>3, <1>6, <1>7, <1>9, QueueWrites

LEMMA NoAttemptFits == NoAttempt \in QueueAttempt /\ NoAttempt.at = "none"
BY DEF NoAttempt, QueueAttempt

LEMMA BackoffShapeStep == RetryAssumption /\ BackoffShape /\ [RetryNext]_retryVars => BackoffShape'
<1> SUFFICES ASSUME RetryAssumption, BackoffShape, [RetryNext]_retryVars PROVE BackoffShape'
  OBVIOUS
<1>1. ASSUME NEW a \in Queued, handleRetry(a) PROVE BackoffShape'
  BY <1>1, BeginKeeps DEF handleRetry
<1>2. ASSUME NEW a \in Queued, AutomaticRetry(a) PROVE BackoffShape'
  <2>1. CASE rendered[a].present /\ rendered[a].retryState = "scheduled"
    BY <1>2, <2>1, BeginKeeps DEF AutomaticRetry
  <2>2. CASE ~ (rendered[a].present /\ rendered[a].retryState = "scheduled")
    <3>1. timers' = [timers EXCEPT ![a] = "none"] /\ UNCHANGED <<rows, attempt, rendered>> /\ timers[a] = "retry"
          /\ rendered = rows
      BY <1>2, <2>2 DEF AutomaticRetry
    <3>2. ~ rows[a].present
      BY <2>2, <3>1 DEF BackoffShape, BackoffIsPending
    <3>3. QED
      BY <3>1, <3>2 DEF BackoffShape, BackoffIsPending
  <2>3. QED
    BY <2>1, <2>2
<1>3. ASSUME NEW a \in Queued, fetchActionStatus(a) PROVE BackoffShape'
  <2>1. PICK r \in QueueRow : r = rows[a]
    BY DEF BackoffShape
  <2>2. CASE attempt[a].serverStatus \in RESOLVED_SERVER_STATUSES
    <3>1. PICK row \in QueueRow : row = [r EXCEPT !.retryState = "resolved"]
               /\ row.present = r.present /\ row.retryState = "resolved"
      BY StateChanges
    <3>2. row.present = rows[a].present /\ row.retryState = "resolved"
      BY <2>1, <3>1
    <3>3. /\ rows' = updateAction(a, row) /\ timers' = [timers EXCEPT ![a] = "dismiss"]
          /\ attempt' = [attempt EXCEPT ![a] = NoAttempt]
      BY <1>3, <2>1, <2>2, <3>1 DEF fetchActionStatus
    <3>4. rendered' \in [Queued -> QueueRow]
      BY <1>3 DEF fetchActionStatus, BackoffShape
    <3>5. QED
      BY ONLY BackoffShape, a \in Queued, row \in QueueRow, NoAttemptFits, <3>2, <3>3, <3>4, QueueWrites
  <2>3. CASE attempt[a].serverStatus \notin RESOLVED_SERVER_STATUSES
    <3>1. attempt' = [attempt EXCEPT ![a].at = "submitting"]
          /\ UNCHANGED <<rows, timers, rendered>> /\ attempt[a].at = "checking"
      BY <1>3, <2>3 DEF fetchActionStatus
    <3>2. PICK old \in QueueAttempt : old = attempt[a]
      BY DEF BackoffShape
    <3>3. PICK try \in QueueAttempt : try = [old EXCEPT !.at = "submitting"]
      BY DEF QueueAttempt
    <3>4. attempt' = [attempt EXCEPT ![a] = try]
      BY <3>1, <3>2, <3>3
    <3>5. attempt' \in [Queued -> QueueAttempt] /\ \A b \in Queued : b # a => attempt'[b] = attempt[b]
      BY <3>4 DEF BackoffShape
    <3>6. QED
      BY <3>1, <3>5 DEF BackoffShape, BackoffIsPending
  <2>4. QED
    BY <2>2, <2>3
<1>4. ASSUME NEW a \in Queued, submitRetry(a) PROVE BackoffShape'
  <2>1. PICK r \in QueueRow : r = rows[a]
    BY DEF BackoffShape
  <2>2. PICK n \in Nat : n = attempt[a].count + 1
    BY DEF BackoffShape, QueueAttempt
  <2>3. PICK row \in QueueRow :
          /\ row = [r EXCEPT !.status = "pending", !.retryState = "idle", !.retryCount = n, !.serverStatus = "submitted"]
          /\ row.present = r.present /\ row.retryState = "idle"
    BY SubmitChanges
  <2>4. row.present = rows[a].present /\ row.retryState = "idle"
    BY <2>1, <2>3
  <2>5. rows' = updateAction(a, row)
    BY <1>4, <2>1, <2>2, <2>3 DEF submitRetry
  <2>6. attempt' = [attempt EXCEPT ![a] = NoAttempt] /\ UNCHANGED <<rendered, timers>> /\ attempt[a].at = "submitting"
    BY <1>4 DEF submitRetry
  <2>7. timers[a] # "retry"
    BY <2>6 DEF BackoffShape
  <2>8. DOMAIN rows' = Queued /\ rows' \in [Queued -> QueueRow]
        /\ rows'[a] = (IF rows[a].present THEN row ELSE rows[a]) /\ \A b \in Queued : b # a => rows'[b] = rows[b]
    BY <2>5 DEF BackoffShape, updateAction
  <2>9. attempt' \in [Queued -> QueueAttempt] /\ attempt'[a] = NoAttempt
        /\ \A b \in Queued : b # a => attempt'[b] = attempt[b]
    BY <2>6, NoAttemptFits DEF BackoffShape
  <2>10. BackoffIsPending'
    BY <2>4, <2>6, <2>7, <2>8 DEF BackoffShape, BackoffIsPending
  <2>11. QED
    BY <2>6, <2>8, <2>9, <2>10, NoAttemptFits DEF BackoffShape
<1>5. ASSUME NEW a \in Queued, RetryFails(a) PROVE BackoffShape'
  <2>1. PICK r \in QueueRow : r = rows[a]
    BY DEF BackoffShape
  <2>2. attempt' = [attempt EXCEPT ![a] = NoAttempt] /\ rendered' = rendered /\ attempt[a].at = "submitting"
    BY <1>5 DEF RetryFails
  <2>3. timers[a] # "retry" /\ rendered' \in [Queued -> QueueRow]
    BY <2>2 DEF BackoffShape
  <2>4. CASE attempt[a].count + 1 >= MAX_RETRY_ATTEMPTS
    <3>1. PICK row \in QueueRow : row = [r EXCEPT !.retryState = "exhausted"]
               /\ row.present = r.present /\ row.retryState = "exhausted"
      BY StateChanges
    <3>2. row.present = rows[a].present /\ row.retryState = "exhausted"
      BY <2>1, <3>1
    <3>3. rows' = updateAction(a, row) /\ timers' = timers
      BY <1>5, <2>1, <2>4, <3>1 DEF RetryFails
    <3>4. DOMAIN rows' = Queued /\ rows' \in [Queued -> QueueRow]
          /\ rows'[a] = (IF rows[a].present THEN row ELSE rows[a]) /\ \A b \in Queued : b # a => rows'[b] = rows[b]
      BY <3>3 DEF BackoffShape, updateAction
    <3>5. attempt' \in [Queued -> QueueAttempt] /\ attempt'[a] = NoAttempt
          /\ \A b \in Queued : b # a => attempt'[b] = attempt[b]
      BY <2>2, NoAttemptFits DEF BackoffShape
    <3>6. BackoffIsPending'
      BY <2>3, <3>2, <3>3, <3>4 DEF BackoffShape, BackoffIsPending
    <3>7. QED
      BY <2>3, <3>3, <3>4, <3>5, <3>6, NoAttemptFits DEF BackoffShape
  <2>5. CASE ~ (attempt[a].count + 1 >= MAX_RETRY_ATTEMPTS)
    <3>1. PICK row \in QueueRow : row = [r EXCEPT !.retryState = "scheduled"]
               /\ row.present = r.present /\ row.retryState = "scheduled"
      BY StateChanges
    <3>2. row.present = rows[a].present /\ row.retryState = "scheduled"
      BY <2>1, <3>1
    <3>3. rows' = updateAction(a, row) /\ timers' = [timers EXCEPT ![a] = "retry"]
      BY <1>5, <2>1, <2>5, <3>1 DEF RetryFails, ScheduleTimer
    <3>4. QED
      BY ONLY BackoffShape, a \in Queued, row \in QueueRow, NoAttemptFits, <2>2, <2>3, <3>2, <3>3, QueueWrites
  <2>6. QED
    BY <2>4, <2>5
<1>6. ASSUME NEW a \in Queued, rows' = [rows EXCEPT ![a].present = FALSE], UNCHANGED attempt,
             timers' = [timers EXCEPT ![a] = "none"], rendered' = rendered \/ rendered' = rows'
      PROVE  BackoffShape'
  <2>1. PICK r \in QueueRow : r = rows[a]
    BY DEF BackoffShape
  <2>2. PICK row \in QueueRow : row = [r EXCEPT !.present = FALSE] /\ ~ row.present
    BY DismissChanges
  <2>3. ~ row.present
    BY <2>2
  <2>4. rows' = [rows EXCEPT ![a] = row]
    BY <1>6, <2>1, <2>2
  <2>5. rows' \in [Queued -> QueueRow] /\ rows'[a] = row /\ \A b \in Queued : b # a => rows'[b] = rows[b]
    BY <2>4 DEF BackoffShape
  <2>6. DOMAIN timers' = Queued /\ timers'[a] = "none" /\ \A b \in Queued : b # a => timers'[b] = timers[b]
    BY <1>6 DEF BackoffShape
  <2>7. rendered' \in [Queued -> QueueRow]
    BY <1>6, <2>5 DEF BackoffShape
  <2>8. BackoffIsPending'
    BY <2>3, <2>5, <2>6 DEF BackoffShape, BackoffIsPending
  <2>9. QED
    BY <1>6, <2>5, <2>6, <2>7, <2>8 DEF BackoffShape
<1>7. ASSUME NEW a \in Queued, handleCancel(a) PROVE BackoffShape'
  <2>1. CASE rows' = rows
    BY <1>7, <2>1 DEF handleCancel, BackoffShape, BackoffIsPending
  <2>2. CASE rows' = updateAction(a, [rows[a] EXCEPT !.status = "failed"])
    <3>1. PICK r \in QueueRow : r = rows[a]
      BY DEF BackoffShape
    <3>2. PICK row \in QueueRow :
            row = [r EXCEPT !.status = "failed"] /\ row.present = r.present /\ row.retryState = r.retryState
      BY CancelChanges
    <3>3. row.present = rows[a].present /\ row.retryState = rows[a].retryState
      BY <3>1, <3>2
    <3>4. UNCHANGED <<rendered, attempt, timers>> /\ rows' = updateAction(a, row)
      BY <1>7, <2>2, <3>1, <3>2 DEF handleCancel
    <3>5. rows' \in [Queued -> QueueRow]
          /\ rows'[a] = (IF rows[a].present THEN row ELSE rows[a]) /\ \A b \in Queued : b # a => rows'[b] = rows[b]
      BY <3>4 DEF BackoffShape, updateAction
    <3>6. BackoffIsPending'
      BY <3>3, <3>4, <3>5 DEF BackoffShape, BackoffIsPending
    <3>7. QED
      BY <3>4, <3>5, <3>6 DEF BackoffShape
  <2>3. QED
    BY <1>7, <2>1, <2>2 DEF handleCancel
<1>8. CASE handleClearAll
  <2>1. \A a \in Queued : [rows[a] EXCEPT !.present = FALSE] \in QueueRow /\ ~ [rows[a] EXCEPT !.present = FALSE].present
    <3> SUFFICES ASSUME NEW a \in Queued
                 PROVE  [rows[a] EXCEPT !.present = FALSE] \in QueueRow /\ ~ [rows[a] EXCEPT !.present = FALSE].present
      OBVIOUS
    <3>1. PICK r \in QueueRow : r = rows[a]
      BY DEF BackoffShape
    <3>2. PICK row \in QueueRow : row = [r EXCEPT !.present = FALSE] /\ ~ row.present
      BY DismissChanges
    <3>3. QED
      BY <3>1, <3>2
  <2>2. rows' = [a \in Queued |-> [rows[a] EXCEPT !.present = FALSE]]
    BY <1>8 DEF handleClearAll
  <2>3. rows' \in [Queued -> QueueRow] /\ \A a \in Queued : ~ rows'[a].present
    BY <2>1, <2>2
  <2>4. rendered' = rows' /\ UNCHANGED attempt
        /\ timers' = [a \in Queued |-> IF rendered[a].present THEN "none" ELSE timers[a]]
    BY <1>8 DEF handleClearAll
  <2>5. QED
    BY <2>3, <2>4 DEF BackoffShape, BackoffIsPending
<1>9. CASE RenderRows
  BY <1>9 DEF RenderRows, BackoffShape, BackoffIsPending
<1>10. CASE UNCHANGED retryVars
  BY <1>10 DEF retryVars, BackoffShape, BackoffIsPending
<1>11. QED
  BY <1>1, <1>2, <1>3, <1>4, <1>5, <1>6, <1>7, <1>8, <1>9, <1>10 DEF RetryNext, DismissTimer, handleDismiss

LEMMA BackoffShapeHolds == RetrySpec => []BackoffShape
<1>1. RetryInit => BackoffShape
  <2> SUFFICES ASSUME RetryInit PROVE BackoffShape
    OBVIOUS
  <2>1. ASSUME NEW r \in QueuedRows PROVE r \in QueueRow /\ r.retryState = "idle"
    <3>1. PICK N, B : N = 0 .. MAX_RETRY_ATTEMPTS - 1 /\ B = {TRUE}
      OBVIOUS
    <3>2. N \subseteq Nat /\ B \subseteq BOOLEAN
      BY <3>1, RetryAssumption
    <3>3. CASE r = [present |-> TRUE, status |-> "pending", retryState |-> "idle",
               retryCount |-> 0, serverStatus |-> "submitted"]
      <4>1. PICK f \in BOOLEAN : f = TRUE
        OBVIOUS
      <4>2. QED
        BY <3>3, <4>1 DEF QueueRow
    <3>4. CASE r \in [present : B, status : {"failed"}, retryState : {"idle"},
               retryCount : N, serverStatus : {"failed", "confirmed"}]
      BY <3>2, <3>4 DEF QueueRow
    <3>5. QED
      BY <3>1, <3>3, <3>4 DEF QueuedRows
  <2>2. QueuedRows \subseteq QueueRow /\ \A r \in QueuedRows : r.retryState = "idle"
    BY <2>1
  <2>3. QED
    BY <2>2, NoAttemptFits DEF RetryInit, BackoffShape, BackoffIsPending
<1>2. QED
  BY <1>1, BackoffShapeStep, RetryAssumption, PTL DEF RetrySpec

-----------------------------------------------------------------------------
(* The pools of RPC nodes.                                                   *)

\* The requests that a call sent are those of its attempts: each of them for
\* a critical read.
CallFits(call) ==
    /\ DOMAIN call = {"kind", "phase", "attempt", "tried", "sent"}
    /\ call.kind \in {"none", "best-effort", "critical", "read", "submit"}
    /\ call.phase \in {"idle", "pick", "done", "failed"} \cup Nodes
    /\ call.attempt \in Nat /\ call.sent \in Nat
    /\ call.phase = "idle" => call.kind = "none" /\ call.attempt = 0 /\ call.sent = 0
    /\ call.kind = "submit" =>
         /\ call.sent <= 1
         /\ call.phase = "pick" => call.sent <= call.attempt /\ call.attempt <= 1
         /\ call.phase \in Nodes => call.attempt = 0
    /\ call.kind = "critical" =>
         /\ call.phase = "pick" => call.sent = call.attempt
         /\ call.phase \in Nodes => call.sent = call.attempt + 1
         /\ call.phase = "failed" => call.sent = maxRetries

\* What the pool knows of a node are numbers.
CallsCounted ==
    /\ instant \in Nat
    /\ nodeHealth \in [Nodes -> [healthy : BOOLEAN, failures : Nat, cooldownUntil : Nat]]
    /\ DOMAIN poolCall = PoolCalls
    /\ \A c \in PoolCalls : CallFits(poolCall[c])

\* A critical read finds a node to ask.
LEMMA SomeNodeIsLeastBad == CallsCounted => pickLeastBadNode # {}
<1> SUFFICES ASSUME CallsCounted PROVE pickLeastBadNode # {}
  OBVIOUS
<1> DEFINE C == {nodeHealth[n].cooldownUntil : n \in Nodes}
<1>1. \A n \in Nodes : nodeHealth[n].cooldownUntil \in Nat /\ nodeHealth[n].failures \in Nat
  BY DEF CallsCounted
<1>2. PICK e \in C : \A f \in C : e <= f
  <2>1. C \in SUBSET Nat /\ C # {}
    BY <1>1, RpcPoolAssumption
  <2>2. QED
    BY <2>1, SmallestMember
<1> DEFINE F == {nodeHealth[n].failures : n \in {m \in Nodes : nodeHealth[m].cooldownUntil = e}}
<1>3. PICK g \in F : \A f \in F : g <= f
  <2>1. F \in SUBSET Nat /\ F # {}
    BY <1>1, <1>2
  <2>2. QED
    BY <2>1, SmallestMember
<1>4. PICK n \in Nodes : nodeHealth[n].cooldownUntil = e /\ nodeHealth[n].failures = g
  BY <1>3
<1>5. \A m \in Nodes : e <= nodeHealth[m].cooldownUntil
  BY <1>2
<1>6. \A m \in Nodes : nodeHealth[m].cooldownUntil = e => g <= nodeHealth[m].failures
  BY <1>3
<1>7. n \in pickLeastBadNode
  <2> SUFFICES ASSUME NEW m \in Nodes
               PROVE  \/ nodeHealth[n].cooldownUntil < nodeHealth[m].cooldownUntil
                      \/ /\ nodeHealth[n].cooldownUntil = nodeHealth[m].cooldownUntil
                         /\ nodeHealth[n].failures <= nodeHealth[m].failures
    BY DEF pickLeastBadNode
  <2>1. e \in Nat /\ nodeHealth[m].cooldownUntil \in Nat
    BY <1>1, <1>4
  <2>2. QED
    BY <1>4, <1>5, <1>6, <2>1
<1>8. QED
  BY <1>7

LEMMA HealthFits ==
    ASSUME NEW h \in [healthy : BOOLEAN, failures : Nat, cooldownUntil : Nat], instant \in Nat
    PROVE  /\ markSuccess(h) \in [healthy : BOOLEAN, failures : Nat, cooldownUntil : Nat]
           /\ markFailure(h) \in [healthy : BOOLEAN, failures : Nat, cooldownUntil : Nat]
           /\ markRateLimited(h) \in [healthy : BOOLEAN, failures : Nat, cooldownUntil : Nat]
<1>1. markSuccess(h) \in [healthy : BOOLEAN, failures : Nat, cooldownUntil : Nat]
  <2>1. PICK f \in BOOLEAN : f = TRUE
    OBVIOUS
  <2>2. QED
    BY <2>1 DEF markSuccess
<1>2. markFailure(h) \in [healthy : BOOLEAN, failures : Nat, cooldownUntil : Nat]
  <2>1. PICK n \in Nat : n = IF h.failures < unhealthyThreshold THEN h.failures + 1 ELSE h.failures
    OBVIOUS
  <2>2. PICK f \in BOOLEAN : f = (h.healthy /\ n < unhealthyThreshold)
    OBVIOUS
  <2>3. markFailure(h) = [h EXCEPT !.failures = n, !.healthy = f]
    BY <2>1, <2>2 DEF markFailure
  <2>4. QED
    BY <2>3
<1>3. markRateLimited(h) \in [healthy : BOOLEAN, failures : Nat, cooldownUntil : Nat]
  <2>1. PICK n \in Nat : n = instant + RetryAfter
    BY RpcPoolAssumption
  <2>2. QED
    BY <2>1 DEF markRateLimited
<1>4. QED
  BY <1>1, <1>2, <1>3

\* One call moves on, and the nodes' health stays health.
LEMMA CallMoves ==
    ASSUME CallsCounted, NEW c \in PoolCalls, NEW call, poolCall' = [poolCall EXCEPT ![c] = call],
           instant' \in Nat, nodeHealth' \in [Nodes -> [healthy : BOOLEAN, failures : Nat, cooldownUntil : Nat]],
           CallFits(call)
    PROVE  CallsCounted'
<1>1. DOMAIN poolCall' = PoolCalls /\ poolCall'[c] = call /\ \A d \in PoolCalls : d # c => poolCall'[d] = poolCall[d]
  BY DEF CallsCounted
<1>2. QED
  BY <1>1 DEF CallsCounted

LEMMA CallsCountedStep == CallsCounted /\ [PoolNext]_poolVars => CallsCounted'
<1> SUFFICES ASSUME CallsCounted, [PoolNext]_poolVars PROVE CallsCounted'
  OBVIOUS
<1> DEFINE H == [healthy : BOOLEAN, failures : Nat, cooldownUntil : Nat]
<1>0. maxRetries \in Nat /\ maxRetries # 0 /\ \A n \in Nodes : n \notin {"idle", "pick", "done", "failed"}
  BY RpcPoolAssumption
<1>1. ASSUME NEW c \in PoolCalls, StartCall(c) PROVE CallsCounted'
  <2>1. PICK k \in KindsOf(poolKind) : poolCall' = [poolCall EXCEPT ![c].kind = k, ![c].phase = "pick"]
    BY <1>1 DEF StartCall
  <2>2. k \in {"best-effort", "critical", "read", "submit"}
    BY DEF KindsOf
  <2>3. PICK call : call = [poolCall[c] EXCEPT !.kind = k, !.phase = "pick"]
    OBVIOUS
  <2>4. poolCall' = [poolCall EXCEPT ![c] = call]
    BY <2>1, <2>3 DEF CallFits, CallsCounted
  <2>5. /\ DOMAIN call = {"kind", "phase", "attempt", "tried", "sent"} /\ call.kind = k /\ call.phase = "pick"
        /\ call.attempt = 0 /\ call.sent = 0
    BY <1>1, <2>3 DEF CallFits, CallsCounted, StartCall
  <2>6. instant' \in Nat /\ nodeHealth' \in [Nodes -> H]
    BY <1>1 DEF StartCall, CallsCounted
  <2>7. CallFits(call)
    BY ONLY <1>0, <2>2, <2>4, <2>5, <2>6 DEF CallFits
  <2>8. QED
    BY ONLY CallsCounted, c \in PoolCalls, <2>2, <2>4, <2>5, <2>6, <2>7, CallMoves
<1>2. ASSUME NEW c \in PoolCalls, Attempt(c) PROVE CallsCounted'
  <2>1. PICK call : call = poolCall[c]
    OBVIOUS
  <2>2. PICK allowed \in Nat : allowed = IF call.kind = "submit" THEN 1 ELSE maxRetries
    BY <1>0
  <2>3. /\ DOMAIN call = {"kind", "phase", "attempt", "tried", "sent"} /\ call.phase = "pick"
        /\ call.kind \in {"none", "best-effort", "critical", "read", "submit"} /\ call.attempt \in Nat /\ call.sent \in Nat
        /\ call.kind = "submit" => call.sent <= 1 /\ call.sent <= call.attempt /\ call.attempt <= 1
        /\ call.kind = "critical" => call.sent = call.attempt
    BY <1>2, <2>1 DEF CallFits, CallsCounted, Attempt
  <2>4. instant' \in Nat /\ nodeHealth' \in [Nodes -> H]
    BY <1>2 DEF Attempt, CallsCounted
  <2>5. CASE call.attempt = allowed
    <3>1. poolCall' = [poolCall EXCEPT ![c].phase = "failed"]
      BY <1>2, <2>1, <2>2, <2>5 DEF Attempt
    <3>2. PICK next : next = [call EXCEPT !.phase = "failed"]
      OBVIOUS
    <3>3. poolCall' = [poolCall EXCEPT ![c] = next]
      BY <2>1, <3>1, <3>2 DEF CallsCounted
    <3>4. /\ DOMAIN next = {"kind", "phase", "attempt", "tried", "sent"} /\ next.kind = call.kind /\ next.phase = "failed"
          /\ next.attempt = call.attempt /\ next.sent = call.sent
      BY <2>3, <3>2
    <3>5. call.kind = "critical" => call.sent = maxRetries
      BY <2>2, <2>3, <2>5
    <3>6. CallFits(next)
      BY ONLY <1>0, <2>3, <2>4, <3>3, <3>4, <3>5 DEF CallFits
    <3>7. QED
      BY ONLY CallsCounted, c \in PoolCalls, <2>3, <2>4, <3>3, <3>4, <3>5, <3>6, CallMoves
  <2>6. CASE call.attempt # allowed /\ Candidates(call) = {}
    <3>1. poolCall' = [poolCall EXCEPT ![c].attempt = @ + 1, ![c].tried = {}]
      BY <1>2, <2>1, <2>2, <2>6 DEF Attempt
    <3>2. PICK next : next = [call EXCEPT !.attempt = @ + 1, !.tried = {}]
      OBVIOUS
    <3>3. poolCall' = [poolCall EXCEPT ![c] = next]
      BY <2>1, <3>1, <3>2 DEF CallsCounted
    <3>4. /\ DOMAIN next = {"kind", "phase", "attempt", "tried", "sent"} /\ next.kind = call.kind /\ next.phase = "pick"
          /\ next.attempt = call.attempt + 1 /\ next.sent = call.sent
      BY <2>3, <3>2
    <3>5. call.kind # "critical"
      BY <2>6, SomeNodeIsLeastBad DEF Candidates
    <3>6. call.kind = "submit" => call.attempt = 0
      <4> SUFFICES ASSUME call.kind = "submit" PROVE call.attempt = 0
        OBVIOUS
      <4>1. allowed = 1 /\ call.attempt <= 1
        BY <2>2, <2>3
      <4>2. QED
        BY <2>3, <2>6, <4>1
    <3>7. CallFits(next)
      BY ONLY <1>0, <2>3, <2>4, <3>3, <3>4, <3>5, <3>6 DEF CallFits
    <3>8. QED
      BY ONLY CallsCounted, c \in PoolCalls, <2>3, <2>4, <3>3, <3>4, <3>5, <3>6, <3>7, CallMoves
  <2>7. CASE call.attempt # allowed /\ Candidates(call) # {}
    <3>1. PICK n \in Candidates(call) :
            poolCall' = [poolCall EXCEPT ![c].phase = n, ![c].sent = @ + 1,
              ![c].tried = IF call.kind # "read" THEN {} ELSE IF n \in @ THEN {n} ELSE @ \cup {n}]
      BY <1>2, <2>1, <2>2, <2>7 DEF Attempt
    <3>2. n \in Nodes
      BY <3>1 DEF Candidates, pickLeastBadNode, pickNode
    <3>3. PICK next : next = [call EXCEPT !.phase = n, !.sent = @ + 1,
              !.tried = IF call.kind # "read" THEN {} ELSE IF n \in @ THEN {n} ELSE @ \cup {n}]
      OBVIOUS
    <3>4. poolCall' = [poolCall EXCEPT ![c] = next]
      BY <2>1, <3>1, <3>3 DEF CallsCounted
    <3>5. /\ DOMAIN next = {"kind", "phase", "attempt", "tried", "sent"} /\ next.kind = call.kind /\ next.phase = n
          /\ next.attempt = call.attempt /\ next.sent = call.sent + 1
      BY <2>3, <3>3
    <3>6. call.kind = "submit" => call.sent = 0 /\ call.attempt = 0
      <4> SUFFICES ASSUME call.kind = "submit" PROVE call.sent = 0 /\ call.attempt = 0
        OBVIOUS
      <4>1. allowed = 1 /\ call.sent <= 1 /\ call.sent <= call.attempt /\ call.attempt <= 1
        BY <2>2, <2>3
      <4>2. QED
        BY <2>3, <2>7, <4>1
    <3>7. CallFits(next)
      BY ONLY <1>0, <2>3, <2>4, <3>2, <3>4, <3>5, <3>6 DEF CallFits
    <3>8. QED
      BY ONLY CallsCounted, c \in PoolCalls, <2>3, <2>4, <3>2, <3>4, <3>5, <3>6, <3>7, CallMoves
  <2>8. QED
    BY <2>5, <2>6, <2>7
<1>3. ASSUME NEW c \in PoolCalls, Succeeds(c) PROVE CallsCounted'
  <2>1. PICK call : call = poolCall[c]
    OBVIOUS
  <2>2. PICK next : next = [call EXCEPT !.phase = "done"]
    OBVIOUS
  <2>3. poolCall' = [poolCall EXCEPT ![c] = next] /\ call.phase \in Nodes
    BY <1>3, <2>1, <2>2 DEF CallFits, Succeeds, CallsCounted
  <2>4. /\ DOMAIN call = {"kind", "phase", "attempt", "tried", "sent"}
        /\ call.kind \in {"none", "best-effort", "critical", "read", "submit"} /\ call.attempt \in Nat /\ call.sent \in Nat
        /\ call.kind = "submit" => call.sent <= 1
    BY <2>1 DEF CallFits, CallsCounted
  <2>5. /\ DOMAIN next = {"kind", "phase", "attempt", "tried", "sent"} /\ next.kind = call.kind /\ next.phase = "done"
        /\ next.attempt = call.attempt /\ next.sent = call.sent
    BY <2>2, <2>4
  <2>6. PICK n \in Nodes : n = call.phase
    BY <2>3
  <2>7. nodeHealth' = [nodeHealth EXCEPT ![n] = markSuccess(nodeHealth[n])] /\ instant' = instant
    BY <1>3, <2>1, <2>6 DEF Succeeds
  <2>8. markSuccess(nodeHealth[n]) \in H
    BY HealthFits DEF CallsCounted
  <2>9. instant' \in Nat /\ nodeHealth' \in [Nodes -> H]
    BY <2>7, <2>8 DEF CallsCounted
  <2>10. CallFits(next)
    BY ONLY <1>0, <2>3, <2>4, <2>5, <2>9 DEF CallFits
  <2>11. QED
    BY ONLY CallsCounted, c \in PoolCalls, <2>3, <2>4, <2>5, <2>9, <2>10, CallMoves
<1>4. ASSUME NEW c \in PoolCalls, NEW h \in H, poolCall[c].phase \in Nodes, UNCHANGED instant,
             nodeHealth' = [nodeHealth EXCEPT ![poolCall[c].phase] = h],
             poolCall' = [poolCall EXCEPT ![c] = AfterFailure(@)]
      PROVE  CallsCounted'
  <2>1. PICK call : call = poolCall[c]
    OBVIOUS
  <2>2. PICK next : next = [call EXCEPT !.phase = "pick", !.attempt = @ + 1]
    OBVIOUS
  <2>3. poolCall' = [poolCall EXCEPT ![c] = next] /\ call.phase \in Nodes
    BY <1>4, <2>1, <2>2 DEF AfterFailure
  <2>4. /\ DOMAIN call = {"kind", "phase", "attempt", "tried", "sent"}
        /\ call.kind \in {"none", "best-effort", "critical", "read", "submit"} /\ call.attempt \in Nat /\ call.sent \in Nat
        /\ call.kind = "submit" => call.sent <= 1 /\ call.attempt = 0
        /\ call.kind = "critical" => call.sent = call.attempt + 1
    BY <2>1, <2>3 DEF CallFits, CallsCounted
  <2>5. /\ DOMAIN next = {"kind", "phase", "attempt", "tried", "sent"} /\ next.kind = call.kind /\ next.phase = "pick"
        /\ next.attempt = call.attempt + 1 /\ next.sent = call.sent
    BY <2>2, <2>4
  <2>6. PICK n \in Nodes : n = call.phase
    BY <2>3
  <2>7. nodeHealth' = [nodeHealth EXCEPT ![n] = h] /\ instant' = instant
    BY <1>4, <2>1, <2>6
  <2>8. instant' \in Nat /\ nodeHealth' \in [Nodes -> H]
    BY <2>7 DEF CallsCounted
  <2>9. CallFits(next)
    BY ONLY <1>0, <2>3, <2>4, <2>5, <2>8 DEF CallFits
  <2>10. QED
    BY ONLY CallsCounted, c \in PoolCalls, <2>3, <2>4, <2>5, <2>8, <2>9, CallMoves
<1>5. \A n \in Nodes : /\ markSuccess(nodeHealth[n]) \in H /\ markFailure(nodeHealth[n]) \in H
                       /\ markRateLimited(nodeHealth[n]) \in H /\ markFailure(markFailure(nodeHealth[n])) \in H
  <2> SUFFICES ASSUME NEW n \in Nodes
               PROVE  /\ markSuccess(nodeHealth[n]) \in H /\ markFailure(nodeHealth[n]) \in H
                      /\ markRateLimited(nodeHealth[n]) \in H /\ markFailure(markFailure(nodeHealth[n])) \in H
    OBVIOUS
  <2>1. nodeHealth[n] \in H /\ instant \in Nat
    BY DEF CallsCounted
  <2>2. markSuccess(nodeHealth[n]) \in H /\ markFailure(nodeHealth[n]) \in H /\ markRateLimited(nodeHealth[n]) \in H
    BY <2>1, HealthFits
  <2>3. markFailure(markFailure(nodeHealth[n])) \in H
    BY <2>1, <2>2, HealthFits
  <2>4. QED
    BY <2>2, <2>3
<1>6. ASSUME NEW c \in PoolCalls, TransportFails(c) PROVE CallsCounted'
  <2>1. PICK h \in H : poolCall[c].phase \in Nodes /\ h = markFailure(nodeHealth[poolCall[c].phase])
    BY <1>5, <1>6 DEF TransportFails
  <2>2. QED
    BY <1>4, <1>6, <2>1 DEF TransportFails
<1>7. ASSUME NEW c \in PoolCalls, RateLimited(c) PROVE CallsCounted'
  <2>1. PICK h \in H : poolCall[c].phase \in Nodes /\ h = markRateLimited(nodeHealth[poolCall[c].phase])
    BY <1>5, <1>7 DEF RateLimited
  <2>2. QED
    BY <1>4, <1>7, <2>1 DEF RateLimited
<1>8. ASSUME NEW c \in PoolCalls, HttpFails(c) PROVE CallsCounted'
  <2>1. PICK n \in Nodes : n = poolCall[c].phase
    BY <1>8 DEF HttpFails
  <2>2. PICK h \in H : h =
             IF poolCall[c].kind = "submit" THEN markFailure(markFailure(nodeHealth[n])) ELSE markFailure(nodeHealth[n])
    BY <1>5
  <2>3. nodeHealth' = [nodeHealth EXCEPT ![poolCall[c].phase] = h]
    BY <1>8, <2>1, <2>2 DEF HttpFails
  <2>4. UNCHANGED instant /\ poolCall' = [poolCall EXCEPT ![c] = AfterFailure(@)]
    BY <1>8 DEF HttpFails
  <2>5. QED
    BY <1>4, <2>1, <2>3, <2>4
<1>9. ASSUME NEW n \in Nodes, pingNode(n) PROVE CallsCounted'
  <2>1. PICK h \in H : nodeHealth' = [nodeHealth EXCEPT ![n] = h]
    BY <1>5, <1>9 DEF pingNode
  <2>2. nodeHealth' \in [Nodes -> H] /\ UNCHANGED <<instant, poolCall>>
    BY <1>9, <2>1 DEF pingNode, CallsCounted
  <2>3. QED
    BY <2>2 DEF CallsCounted
<1>10. CASE Wait
  <2>1. instant' \in Nat /\ UNCHANGED <<nodeHealth, poolCall>>
    BY <1>10 DEF Wait, CallsCounted
  <2>2. QED
    BY <2>1 DEF CallsCounted
<1>11. CASE UNCHANGED poolVars
  BY <1>11 DEF CallsCounted, poolVars
<1>12. QED
  BY <1>1, <1>2, <1>3, <1>6, <1>7, <1>8, <1>9, <1>10, <1>11 DEF PoolNext

LEMMA CallsCountedHolds == PoolSpec => []CallsCounted
<1>1. PoolInit => CallsCounted
  <2> SUFFICES ASSUME PoolInit PROVE CallsCounted
    OBVIOUS
  <2>1. PICK f \in BOOLEAN : f = TRUE
    OBVIOUS
  <2>2. nodeHealth \in [Nodes -> [healthy : BOOLEAN, failures : Nat, cooldownUntil : Nat]] /\ instant \in Nat
    BY <2>1 DEF PoolInit
  <2>3. DOMAIN poolCall = PoolCalls /\ \A c \in PoolCalls :
          poolCall[c] = [kind |-> "none", phase |-> "idle", attempt |-> 0, tried |-> {}, sent |-> 0]
    BY DEF PoolInit
  <2>4. QED
    BY <2>2, <2>3 DEF CallFits, CallsCounted
<1>2. QED
  BY <1>1, CallsCountedStep, PTL DEF PoolSpec

LEMMA CallsAreCounted == CallsCounted => SubmittedAtMostOnce /\ CriticalReadsAsk
BY DEF CallFits, CallsCounted, SubmittedAtMostOnce, CriticalReadsAsk

-----------------------------------------------------------------------------
(* The export of a wallet's activity.                                        *)

\* The rows top, top - 1, ... and so on.
Descends(lines, top) == lines \in Seq(Nat) /\ \A i \in 1 .. Len(lines) : lines[i] = top + 1 - i

LEMMA PageDescends ==
    ASSUME NEW top \in Nat, NEW list, list = [i \in 1 .. top |-> top + 1 - i]
    PROVE  /\ Descends(FirstPage(list), top)
           /\ nextCursor(list) \in Nat
           /\ IF nextCursor(list) = 0 THEN Len(FirstPage(list)) = top
              ELSE Len(FirstPage(list)) + nextCursor(list) = top + 1
<1>1. ExportPage \in Nat /\ ExportPage > 0
  BY ExportAssumption
<1>2. list \in Seq(Nat) /\ Len(list) = top /\ \A i \in 1 .. top : list[i] = top + 1 - i
  <2>1. \A i \in 1 .. top : top + 1 - i \in Nat
    OBVIOUS
  <2>2. list \in [1 .. top -> Nat]
    BY <2>1
  <2>3. list \in Seq(Nat)
    BY <2>2
  <2>4. Len(list) = top
    BY <2>2, <2>3
  <2>5. QED
    BY <2>3, <2>4
<1>3. PICK n \in Nat : n = IF ExportPage < Len(list) THEN ExportPage ELSE Len(list)
  BY <1>1, <1>2
<1>4. n <= top
  BY <1>1, <1>2, <1>3
<1>5. SubSeq(list, 1, n) \in Seq(Nat) /\ Len(SubSeq(list, 1, n)) = n /\ \A i \in 1 .. n : SubSeq(list, 1, n)[i] = list[i]
  <2>1. \A i \in 1 .. n : list[i] \in Nat
    BY <1>2, <1>4
  <2>2. SubSeq(list, 1, n) = [i \in 1 .. n |-> list[i]]
    BY <1>2, <1>4
  <2>3. PICK sub : sub = SubSeq(list, 1, n)
    OBVIOUS
  <2>4. sub \in [1 .. n -> Nat] /\ \A i \in 1 .. n : sub[i] = list[i]
    BY <2>1, <2>2, <2>3
  <2>5. sub \in Seq(Nat)
    BY <2>4
  <2>6. Len(sub) = n
    BY <2>4, <2>5
  <2>7. QED
    BY <2>3, <2>4, <2>5, <2>6
<1>6. FirstPage(list) = SubSeq(list, 1, n)
  BY <1>3 DEF FirstPage
<1>7. Descends(FirstPage(list), top) /\ Len(FirstPage(list)) = n
  BY <1>2, <1>4, <1>5, <1>6 DEF Descends
<1>8. nextCursor(list) = IF top > ExportPage THEN top + 1 - ExportPage ELSE 0
  BY <1>1, <1>2 DEF nextCursor
<1>9. QED
  BY <1>1, <1>2, <1>3, <1>7, <1>8

\* Pages that go on where the lines end.
LEMMA LinesDescend ==
    ASSUME NEW lines, NEW items, NEW top \in Nat, Descends(lines, Len(lines) + top), Descends(items, top)
    PROVE  Descends(lines \o items, Len(lines) + top) /\ Len(lines \o items) = Len(lines) + Len(items)
<1>1. lines \in Seq(Nat) /\ items \in Seq(Nat)
  BY DEF Descends
<1>2. /\ lines \o items \in Seq(Nat) /\ Len(lines \o items) = Len(lines) + Len(items)
      /\ \A i \in 1 .. Len(lines) + Len(items) :
           (lines \o items)[i] = IF i <= Len(lines) THEN lines[i] ELSE items[i - Len(lines)]
  BY <1>1
<1>3. ASSUME NEW i \in 1 .. Len(lines) + Len(items) PROVE (lines \o items)[i] = Len(lines) + top + 1 - i
  <2>1. CASE i <= Len(lines)
    BY <1>1, <1>2, <2>1 DEF Descends
  <2>2. CASE i > Len(lines)
    <3>0. Len(lines) \in Nat /\ Len(items) \in Nat /\ i \in Nat /\ i <= Len(lines) + Len(items)
      BY <1>1
    <3>1. PICK j \in 1 .. Len(items) : j = i - Len(lines)
      <4>1. PICK p \in Nat, q \in Nat, k \in Nat : p = Len(lines) /\ q = Len(items) /\ k = i
        BY <3>0
      <4>2. k - p \in 1 .. q
        BY <2>2, <3>0, <4>1
      <4>3. QED
        BY <4>1, <4>2
    <3>2. (lines \o items)[i] = items[j]
      BY <1>1, <1>2, <2>2, <3>1
    <3>3. items[j] = top + 1 - j
      BY <3>1 DEF Descends
    <3>4. QED
      BY <1>1, <3>1, <3>2, <3>3
  <2>3. QED
    BY <1>1, <2>1, <2>2
<1>4. QED
  BY <1>2, <1>3 DEF Descends

\* While an export runs its lines end where its cursor is, the page under way
\* goes on from there, and none of the rows it started with is missed.
Continues(lines, cursor, start) ==
    \/ lines = <<>> /\ cursor = 0
    \/ cursor > 0 /\ Descends(lines, Len(lines) + (cursor - 1)) /\ start <= Len(lines) + (cursor - 1)

PageFits(lines, items, next, start) ==
    \E top \in Nat :
      /\ Descends(lines, Len(lines) + top) /\ Descends(items, top) /\ start <= Len(lines) + top
      /\ next \in Nat
      /\ IF next = 0 THEN Len(items) = top ELSE Len(items) + next = top + 1

ExportShape ==
    /\ activity \in [Exporters -> Nat] /\ shownWallet \in Exporters
    /\ DOMAIN job = {"wallet", "cursor", "lines", "answer", "start"}
    /\ job.wallet \in Exporters /\ job.cursor \in Nat /\ job.start \in Nat
    /\ job.start <= activity[job.wallet]
    /\ exportStatus = "exporting" /\ job.answer = NoAnswer => Continues(job.lines, job.cursor, job.start)
    /\ exportStatus = "exporting" /\ job.answer # NoAnswer =>
         PageFits(job.lines, job.answer[1].items, job.answer[1].next, job.start)
    /\ ExportedIsWhole

LEMMA ExportShapeStep == ExportShape /\ [ExportNext]_exportVars => ExportShape'
<1> SUFFICES ASSUME ExportShape, [ExportNext]_exportVars PROVE ExportShape'
  OBVIOUS
<1>1. ASSUME NEW w \in Exporters, RecordActivity(w) PROVE ExportShape'
  <2>1. activity' = [activity EXCEPT ![w] = activity[w] + 1] /\ UNCHANGED <<shownWallet, format, exportStatus, job, file>>
    BY <1>1 DEF RecordActivity
  <2>2. activity' \in [Exporters -> Nat] /\ \A v \in Exporters : activity[v] <= activity'[v]
    BY <2>1 DEF ExportShape
  <2>3. job.start <= activity'[job.wallet]
    BY <2>2 DEF ExportShape
  <2>4. QED
    BY <2>1, <2>2, <2>3 DEF ExportShape, ExportedIsWhole
<1>2. ASSUME NEW w \in Exporters, ChangeWallet(w) PROVE ExportShape'
  BY <1>2 DEF ChangeWallet, ExportShape, ExportedIsWhole
<1>3. ASSUME NEW f, ChooseFormat(f) PROVE ExportShape'
  BY <1>3 DEF ChooseFormat, ExportShape, ExportedIsWhole
<1>4. CASE beginExport
  <2>1. PICK n \in Nat : n = activity[shownWallet]
    BY DEF ExportShape
  <2>2. job' = [wallet |-> shownWallet, cursor |-> 0, lines |-> <<>>, answer |-> NoAnswer, start |-> n]
    BY <1>4, <2>1 DEF beginExport, NoJob
  <2>3. /\ DOMAIN job' = {"wallet", "cursor", "lines", "answer", "start"} /\ job'.wallet = shownWallet
        /\ job'.cursor = 0 /\ job'.start = n /\ job'.lines = <<>> /\ job'.answer = NoAnswer
    BY <2>2
  <2>4. exportStatus' = "exporting" /\ UNCHANGED <<activity, shownWallet, format, file>>
    BY <1>4 DEF beginExport
  <2>5. QED
    BY <2>1, <2>3, <2>4 DEF ExportShape, ExportedIsWhole, Continues
<1>5. CASE ServerAnswers
  <2>1. PICK list : list = RowsBelow(job.wallet, job.cursor)
    OBVIOUS
  <2>2. PICK answer : answer = <<[items |-> FirstPage(list), next |-> nextCursor(list)]>>
    OBVIOUS
  <2>3. /\ exportStatus = "exporting" /\ job.answer = NoAnswer /\ job' = [job EXCEPT !.answer = answer]
        /\ UNCHANGED <<activity, shownWallet, format, exportStatus, file>>
    BY <1>5, <2>1, <2>2 DEF ServerAnswers
  <2>4. /\ DOMAIN job' = {"wallet", "cursor", "lines", "answer", "start"} /\ job'.wallet = job.wallet
        /\ job'.cursor = job.cursor /\ job'.start = job.start /\ job'.lines = job.lines /\ job'.answer = answer
    BY <2>3 DEF ExportShape
  <2>5. Continues(job.lines, job.cursor, job.start)
    BY <2>3 DEF ExportShape
  <2>6. PICK top \in Nat : top = IF job.cursor = 0 THEN activity[job.wallet] ELSE job.cursor - 1
    BY DEF ExportShape
  <2>7. list = [i \in 1 .. top |-> top + 1 - i]
    BY <2>1, <2>6 DEF RowsBelow
  <2>8. Descends(job.lines, Len(job.lines) + top) /\ job.start <= Len(job.lines) + top
    <3>1. CASE job.cursor = 0
      <4>1. job.lines = <<>> /\ job.start <= top
        BY <2>5, <2>6, <3>1 DEF Continues, ExportShape
      <4>2. Len(job.lines) = 0 /\ job.lines \in Seq(Nat)
        BY <4>1
      <4>3. Descends(job.lines, Len(job.lines) + top)
        BY <4>2 DEF Descends
      <4>4. QED
        BY <4>1, <4>2, <4>3
    <3>2. CASE job.cursor # 0
      BY <2>5, <2>6, <3>2 DEF Continues
    <3>3. QED
      BY <3>1, <3>2
  <2>9. PageFits(job.lines, FirstPage(list), nextCursor(list), job.start)
    BY <2>6, <2>7, <2>8, PageDescends DEF PageFits
  <2>10. answer[1].items = FirstPage(list) /\ answer[1].next = nextCursor(list) /\ answer # NoAnswer
    BY <2>2 DEF NoAnswer
  <2>11. PageFits(job'.lines, job'.answer[1].items, job'.answer[1].next, job'.start) /\ job'.answer # NoAnswer
    BY <2>4, <2>9, <2>10
  <2>12. QED
    BY <2>3, <2>4, <2>11 DEF ExportShape, ExportedIsWhole
<1>6. CASE PageArrives
  <2>1. PICK items, next : items = job.answer[1].items /\ next = job.answer[1].next
    OBVIOUS
  <2>2. PICK lines : lines = job.lines \o items
    OBVIOUS
  <2>3. /\ exportStatus = "exporting" /\ job.answer # NoAnswer
        /\ job' = [job EXCEPT !.lines = lines, !.cursor = next, !.answer = NoAnswer]
        /\ UNCHANGED <<activity, shownWallet, format>>
    BY <1>6, <2>1, <2>2 DEF PageArrives, Appended
  <2>4. IF next = 0 THEN exportStatus' = "success" /\ file' = [wallet |-> job.wallet, format |-> format, lines |-> lines]
        ELSE UNCHANGED <<exportStatus, file>>
    BY <1>6, <2>1, <2>2 DEF PageArrives, Appended
  <2>5. PageFits(job.lines, items, next, job.start)
    BY <2>1, <2>3 DEF ExportShape
  <2>6. PICK top \in Nat : /\ Descends(job.lines, Len(job.lines) + top) /\ Descends(items, top)
                           /\ job.start <= Len(job.lines) + top /\ next \in Nat
                           /\ IF next = 0 THEN Len(items) = top ELSE Len(items) + next = top + 1
    BY <2>5 DEF PageFits
  <2>7. Descends(lines, Len(job.lines) + top) /\ Len(lines) = Len(job.lines) + Len(items)
    BY <2>2, <2>6, LinesDescend
  <2>8. Len(job.lines) \in Nat /\ Len(items) \in Nat /\ job.start \in Nat
    BY <2>6 DEF Descends, ExportShape
  <2>9. /\ DOMAIN job' = {"wallet", "cursor", "lines", "answer", "start"} /\ job'.wallet = job.wallet
        /\ job'.cursor = next /\ job'.start = job.start /\ job'.lines = lines /\ job'.answer = NoAnswer
    BY <2>3 DEF ExportShape
  <2>10. CASE next = 0
    <3>1. Len(lines) = Len(job.lines) + top
      BY <2>6, <2>7, <2>10
    <3>2. Descends(lines, Len(lines)) /\ job.start <= Len(lines)
      BY <2>6, <2>7, <3>1
    <3>3. WholeActivity(lines)
      <4>1. lines \in Seq(Nat) /\ \A i \in 1 .. Len(lines) : lines[i] = Len(lines) + 1 - i
        BY <3>2 DEF Descends
      <4>2. DOMAIN lines = 1 .. Len(lines)
        BY <4>1
      <4>3. QED
        BY ONLY <4>1, <4>2 DEF WholeActivity
    <3>4. exportStatus' = "success" /\ file'.lines = lines /\ file'.wallet = job.wallet /\ file'.format = format
      BY <2>4, <2>10
    <3>5. ExportedIsWhole'
      BY <2>3, <2>9, <3>2, <3>3, <3>4 DEF ExportedIsWhole
    <3>6. QED
      BY <2>3, <2>6, <2>9, <3>4, <3>5 DEF ExportShape
  <2>11. CASE next # 0
    <3>1. Len(job.lines) + top = Len(lines) + (next - 1) /\ next > 0
      BY <2>6, <2>7, <2>8, <2>11
    <3>2. Continues(lines, next, job.start)
      BY <2>6, <2>7, <3>1 DEF Continues
    <3>3. UNCHANGED <<exportStatus, file>>
      BY <2>4, <2>11
    <3>4. ExportedIsWhole'
      BY <2>3, <3>3 DEF ExportShape, ExportedIsWhole
    <3>5. QED
      BY <2>3, <2>6, <2>9, <3>2, <3>3, <3>4 DEF ExportShape
  <2>12. QED
    BY <2>10, <2>11
<1>7. ASSUME NEW outcome \in {"cancelled", "error"}, Abandon(outcome) PROVE ExportShape'
  BY <1>7 DEF Abandon, ExportShape, ExportedIsWhole
<1>8. CASE UNCHANGED exportVars
  BY <1>8 DEF exportVars, ExportShape, ExportedIsWhole
<1>9. QED
  BY <1>1, <1>2, <1>3, <1>4, <1>5, <1>6, <1>7, <1>8 DEF ExportNext, cancelExport, ExportFails

LEMMA ExportShapeHolds == ExportSpec => []ExportShape
<1>1. ExportInit => ExportShape
  <2> SUFFICES ASSUME ExportInit PROVE ExportShape
    OBVIOUS
  <2>1. shownWallet \in Exporters
    BY ExportAssumption DEF ExportInit
  <2>2. job = [wallet |-> shownWallet, cursor |-> 0, lines |-> <<>>, answer |-> NoAnswer, start |-> 0]
        /\ file.lines = <<>>
    BY DEF ExportInit, NoJob, NoFile
  <2>3. exportStatus = "idle" /\ activity = [w \in Exporters |-> 0]
    BY DEF ExportInit
  <2>4. WholeActivity(file.lines)
    BY <2>2 DEF WholeActivity
  <2>5. QED
    BY <2>1, <2>2, <2>3, <2>4 DEF ExportShape, ExportedIsWhole
<1>2. QED
  BY <1>1, ExportShapeStep, PTL DEF ExportSpec

-----------------------------------------------------------------------------
(* Savings and quests of the front end.                                      *)

Ran(f) == runCanonicalCase(f[1], f[2]) = f[3]

\* The fixtures by what they are about.
DepositCases ==
  {<<"deposit", <<0>>, <<"InvalidAmount", 0>>>>,
   <<"deposit", <<-10>>, <<"InvalidAmount", 0>>>>, <<"deposit", <<100>>, <<"ok", 0>>>>}
WithdrawCases ==
  {<<"withdraw", <<500, 1000, 999>>, <<"LockupActive", 0>>>>,
   <<"withdraw", <<500, 1000, 1000>>, <<"ok", 500>>>>}
ClaimCases ==
  {<<"claim", <<0, 0, 0, 9999, 5>>, <<"noop", 0>>>>, <<"claim", <<100, 0, 100, 9999, 5>>, <<"noop", 0>>>>,
   <<"claim", <<100, 25, 50, 9999, 5>>, <<"ok", 75>>>>, <<"claim", <<100, 0, 0, 1000, 1001>>, <<"ClaimDeadlinePassed", 0>>>>,
    <<"claim", <<100, 0, 0, 1000, 1000>>, <<"ok", 100>>>>}
YieldCases ==
  {<<"credit_yield", <<200, 100>>, <<"InvalidAction", 0>>>>, <<"credit_yield", <<100, 100>>, <<"ok", 0>>>>}
RewardCases ==
  {<<"draw_winner", <<0>>, <<"InvalidAmount", 0>>>>, <<"draw_winner", <<1000>>, <<"ok", 0>>>>,
   <<"quest", <<0>>, <<"InvalidAmount", 0>>>>, <<"quest", <<500>>, <<"ok", 0>>>>}
LockupCases ==
  {<<"lockup", <<0>>, <<"ok", 100>>>>, <<"lockup", <<7>>, <<"ok", 110>>>>,
   <<"lockup", <<14>>, <<"ok", 125>>>>, <<"lockup", <<15>>, <<"ok", 150>>>>}

\* The predicates give every fixture its outcome.
LEMMA FixturesRun == FixturesHold
<1>1. \A f \in DepositCases : Ran(f)
  BY DEF Ran, DepositCases, runCanonicalCase, validateDepositAmount
<1>2. \A f \in WithdrawCases : Ran(f)
  BY DEF Ran, WithdrawCases, runCanonicalCase, validateWithdrawLockup
<1>3. \A f \in ClaimCases : Ran(f)
  BY DEF Ran, ClaimCases, runCanonicalCase, validateClaimDeadline, claimableTotal
<1>4. \A f \in YieldCases : Ran(f)
  BY DEF Ran, YieldCases, runCanonicalCase, validateCreditYield
<1>5. \A f \in RewardCases : Ran(f)
  BY DEF Ran, RewardCases, runCanonicalCase, validateQuestReward
<1>6. \A f \in LockupCases : Ran(f)
  BY DEF Ran, LockupCases, runCanonicalCase, lockupMultiplierBps
<1>7. ASSUME NEW f \in Fixtures PROVE Ran(f)
  <2>1. f \in DepositCases \/ f \in WithdrawCases \/ f \in ClaimCases \/ f \in YieldCases
        \/ f \in RewardCases \/ f \in LockupCases
    BY DEF Fixtures, DepositCases, WithdrawCases, ClaimCases, YieldCases, RewardCases, LockupCases
  <2>2. QED
    BY <1>1, <1>2, <1>3, <1>4, <1>5, <1>6, <2>1
<1>8. QED
  BY <1>7 DEF FixturesHold, Ran

\* The first quest with an id has an escrow.
FirstHasEscrow(quests, id) ==
    \E i \in DOMAIN quests : /\ quests[i].id = id /\ quests[i].escrow
                             /\ \A j \in DOMAIN quests : quests[j].id = id => i <= j

SaverFits(p) ==
    /\ DOMAIN p = {"balance", "progress", "yield", "claimedReward"}
    /\ p.balance \in Int /\ p.progress \in [Milestones -> BOOLEAN] /\ p.yield \in Int /\ p.claimedReward \in Int

\* What a saver was paid is recorded, a completed milestone was reached, and an
\* enrolment names one saver and the first quest with its id.
MirrorShape ==
    /\ DOMAIN saver = Savers /\ DOMAIN paidOut = Savers /\ completedFlag \in [Milestones -> BOOLEAN]
    /\ \A s \in Savers : SaverFits(saver[s]) /\ paidOut[s] = saver[s].claimedReward /\ paidOut[s] <= saver[s].yield
    /\ \A m \in Milestones : completedFlag[m] => \E s \in Savers : saver[s].progress[m] /\ saver[s].balance >= Targets[m]
    /\ questDb \in Seq([id : Int, escrow : BOOLEAN]) /\ savingsClock \in Int
    /\ \A e \in enrolled : /\ DOMAIN e = {"id", "saver", "balance"} /\ FirstHasEscrow(questDb, e.id)
                           /\ \A f \in enrolled : f.id = e.id /\ f.saver = e.saver => f = e

LEMMA FoundIsFirst ==
    ASSUME MirrorShape, NEW id
    PROVE  (\E q \in FindQuest(id) : q.escrow) <=> FirstHasEscrow(questDb, id)
<1> DEFINE found == {i \in DOMAIN questDb : questDb[i].id = id}
           least == CHOOSE i \in found : \A j \in found : i <= j
<1>1. DOMAIN questDb \subseteq Nat
  BY DEF MirrorShape
<1>2. CASE found = {}
  <2>1. FindQuest(id) = {}
    BY <1>2 DEF FindQuest
  <2>2. QED
    BY <1>2, <2>1 DEF FirstHasEscrow
<1>3. CASE found # {}
  <2>1. least \in found /\ \A j \in found : least <= j
    <3>1. found \in SUBSET Nat
      BY <1>1
    <3>2. \E i \in found : \A j \in found : i <= j
      BY <1>3, <3>1, SmallestMember
    <3>3. QED
      BY <3>2
  <2>2. FindQuest(id) = {questDb[least]}
    BY <1>3 DEF FindQuest
  <2>3. ASSUME NEW i \in found, \A j \in found : i <= j PROVE i = least
    <3>1. i <= least /\ least <= i /\ i \in Nat /\ least \in Nat
      BY <1>1, <2>1, <2>3
    <3>2. QED
      BY <3>1
  <2>4. ASSUME questDb[least].escrow PROVE FirstHasEscrow(questDb, id)
    BY <2>1, <2>4 DEF FirstHasEscrow
  <2>5. ASSUME FirstHasEscrow(questDb, id) PROVE questDb[least].escrow
    BY <2>3, <2>5 DEF FirstHasEscrow
  <2>6. QED
    BY <2>2, <2>4, <2>5
<1>4. QED
  BY <1>2, <1>3

LEMMA MirrorIsEarned == MirrorShape => ClaimsAreEarned
<1> SUFFICES ASSUME MirrorShape PROVE ClaimsAreEarned
  OBVIOUS
<1>1. ASSUME NEW e \in enrolled PROVE (\E q \in FindQuest(e.id) : q.escrow) /\ Cardinality(Enrolment(e.id, e.saver)) = 1
  <2>1. FirstHasEscrow(questDb, e.id) /\ \A f \in enrolled : f.id = e.id /\ f.saver = e.saver => f = e
    BY DEF MirrorShape
  <2>2. Enrolment(e.id, e.saver) = {e}
    BY <2>1 DEF Enrolment
  <2>3. Cardinality(Enrolment(e.id, e.saver)) = 1
    BY <2>2, FS_Singleton
  <2>4. QED
    BY <2>1, <2>3, FoundIsFirst
<1>2. QED
  BY <1>1, FixturesRun DEF MirrorShape, ClaimsAreEarned

\* One saver deposits, earns or is paid.
LEMMA SaverWrites ==
    ASSUME MirrorShape, NEW s \in Savers, NEW p, SaverFits(p),
           saver' = [saver EXCEPT ![s] = p], p.balance >= saver[s].balance,
           \A m \in Milestones : saver[s].progress[m] => p.progress[m],
           DOMAIN paidOut' = Savers, \A t \in Savers : t # s => paidOut'[t] = paidOut[t],
           paidOut'[s] = p.claimedReward, p.claimedReward <= p.yield,
           completedFlag' \in [Milestones -> BOOLEAN],
           \A m \in Milestones : completedFlag'[m] => completedFlag[m] \/ (p.progress[m] /\ p.balance >= Targets[m]),
           UNCHANGED <<savingsClock, questDbVars>>
    PROVE  MirrorShape'
<1>1. DOMAIN saver' = Savers /\ saver'[s] = p /\ \A t \in Savers : t # s => saver'[t] = saver[t]
  BY DEF MirrorShape
<1>2. \A t \in Savers : SaverFits(saver'[t]) /\ paidOut'[t] = saver'[t].claimedReward /\ paidOut'[t] <= saver'[t].yield
  BY <1>1 DEF MirrorShape
<1>3. ASSUME NEW m \in Milestones, completedFlag'[m]
      PROVE  \E t \in Savers : saver'[t].progress[m] /\ saver'[t].balance >= Targets[m]
  <2>1. CASE p.progress[m] /\ p.balance >= Targets[m]
    BY <1>1, <2>1
  <2>2. CASE completedFlag[m]
    <3>1. PICK t \in Savers : saver[t].progress[m] /\ saver[t].balance >= Targets[m]
      BY <2>2 DEF MirrorShape
    <3>2. CASE t # s
      BY <1>1, <3>1, <3>2
    <3>3. CASE t = s
      <4>1. Targets[m] \in Int /\ p.balance \in Int /\ saver[s].balance \in Int
        BY MirrorAssumption DEF MirrorShape, SaverFits, Milestones
      <4>2. QED
        BY <1>1, <3>1, <3>3, <4>1
    <3>4. QED
      BY <3>2, <3>3
  <2>3. QED
    BY <1>3, <2>1, <2>2
<1>4. QED
  BY <1>1, <1>2, <1>3 DEF MirrorShape, questDbVars

LEMMA MirrorShapeStep == MirrorShape /\ [MirrorNext]_mirrorVars => MirrorShape'
<1> SUFFICES ASSUME MirrorShape, [MirrorNext]_mirrorVars PROVE MirrorShape'
  OBVIOUS
<1>1. CASE TimePasses
  <2>1. savingsClock' \in Int
    BY <1>1 DEF TimePasses, MirrorShape
  <2>2. QED
    BY <1>1, <2>1 DEF TimePasses, questDbVars, MirrorShape
<1>2. ASSUME NEW s \in Savers, NEW sum \in SavedSums, trackDeposit(s, sum) PROVE MirrorShape'
  <2>1. PICK p : p = saver[s] /\ SaverFits(p) /\ p.claimedReward = paidOut[s] /\ paidOut[s] <= p.yield
    BY DEF MirrorShape
  <2>2. PICK b \in Int : b = p.balance + sum
    BY <2>1, MirrorAssumption DEF SaverFits
  <2>3. b >= p.balance
    BY <1>2, <2>1, <2>2, MirrorAssumption DEF trackDeposit, validateDepositAmount, SaverFits
  <2>4. PICK newly : newly = Reached(p, b)
    OBVIOUS
  <2>5. PICK done \in [Milestones -> BOOLEAN] : done = [m \in Milestones |-> p.progress[m] \/ m \in newly]
    OBVIOUS
  <2>6. PICK flags \in [Milestones -> BOOLEAN] : flags = [m \in Milestones |-> completedFlag[m] \/ m \in newly]
    OBVIOUS
  <2>7. PICK r : r = [p EXCEPT !.balance = b, !.progress = done]
    OBVIOUS
  <2>8. saver' = [saver EXCEPT ![s] = r]
    BY <1>2, <2>1, <2>2, <2>4, <2>5, <2>7 DEF trackDeposit, MirrorShape
  <2>9. completedFlag' = flags /\ UNCHANGED <<savingsClock, paidOut, questDbVars>>
    BY <1>2, <2>1, <2>2, <2>4, <2>6 DEF trackDeposit
  <2>10. /\ DOMAIN r = DOMAIN p /\ r.balance = b /\ r.progress = done /\ r.yield = p.yield
         /\ r.claimedReward = p.claimedReward
    BY <2>1, <2>7 DEF SaverFits
  <2>11. SaverFits(r)
    BY <2>1, <2>10 DEF SaverFits
  <2>12. \A m \in Milestones : p.progress[m] => r.progress[m]
    BY <2>5, <2>10
  <2>13. \A m \in Milestones : completedFlag'[m] => completedFlag[m] \/ (r.progress[m] /\ r.balance >= Targets[m])
    BY <2>4, <2>5, <2>6, <2>9, <2>10 DEF Reached
  <2>14. DOMAIN paidOut' = Savers /\ \A t \in Savers : paidOut'[t] = paidOut[t]
    BY <2>9 DEF MirrorShape
  <2>15. r.balance >= saver[s].balance /\ paidOut'[s] = r.claimedReward /\ r.claimedReward <= r.yield
    BY <2>1, <2>3, <2>10, <2>14
  <2>16. QED
    BY ONLY MirrorShape, s \in Savers, <2>1, <2>6, <2>8, <2>9, <2>11, <2>12, <2>13, <2>14, <2>15, SaverWrites
<1>3. ASSUME NEW s \in Savers, NEW sum \in SavedSums, creditReward(s, sum) PROVE MirrorShape'
  <2>1. PICK p : p = saver[s] /\ SaverFits(p) /\ p.claimedReward = paidOut[s] /\ paidOut[s] <= p.yield
    BY DEF MirrorShape
  <2>2. PICK y \in Int : y = p.yield + sum
    BY <2>1, MirrorAssumption DEF SaverFits
  <2>3. p.claimedReward <= y
    BY <1>3, <2>1, <2>2, MirrorAssumption DEF creditReward, validateDepositAmount, SaverFits
  <2>4. PICK r : r = [p EXCEPT !.yield = y]
    OBVIOUS
  <2>5. saver' = [saver EXCEPT ![s] = r]
    BY <1>3, <2>1, <2>2, <2>4 DEF creditReward, MirrorShape
  <2>6. UNCHANGED <<savingsClock, completedFlag, paidOut, questDbVars>>
    BY <1>3 DEF creditReward
  <2>7. /\ DOMAIN r = DOMAIN p /\ r.balance = p.balance /\ r.progress = p.progress /\ r.yield = y
        /\ r.claimedReward = p.claimedReward
    BY <2>1, <2>4 DEF SaverFits
  <2>8. SaverFits(r)
    BY <2>1, <2>7 DEF SaverFits
  <2>9. DOMAIN paidOut' = Savers /\ (\A t \in Savers : paidOut'[t] = paidOut[t]) /\ completedFlag' \in [Milestones -> BOOLEAN]
        /\ \A m \in Milestones : completedFlag'[m] => completedFlag[m]
    BY <2>6 DEF MirrorShape
  <2>10. r.balance >= saver[s].balance /\ paidOut'[s] = r.claimedReward /\ r.claimedReward <= r.yield
    BY <2>1, <2>3, <2>7, <2>9 DEF SaverFits
  <2>11. \A m \in Milestones : saver[s].progress[m] => r.progress[m]
    BY <2>1, <2>7
  <2>12. QED
    BY ONLY MirrorShape, s \in Savers, <2>5, <2>6, <2>8, <2>9, <2>10, <2>11, SaverWrites
<1>4. ASSUME NEW s \in Savers, unlockMilestone(s) PROVE MirrorShape'
  <2>1. PICK p : p = saver[s] /\ SaverFits(p) /\ p.claimedReward = paidOut[s] /\ paidOut[s] <= p.yield
    BY DEF MirrorShape
  <2>2. PICK k : saver' = [saver EXCEPT ![s].progress[k] = TRUE]
    BY <1>4 DEF unlockMilestone
  <2>3. PICK t \in BOOLEAN : t = TRUE
    OBVIOUS
  <2>4. PICK done \in [Milestones -> BOOLEAN] : done = [p.progress EXCEPT ![k] = t]
    BY <2>1 DEF SaverFits
  <2>5. PICK r : r = [p EXCEPT !.progress = done]
    OBVIOUS
  <2>6. saver' = [saver EXCEPT ![s] = r]
    BY <2>1, <2>2, <2>3, <2>4, <2>5 DEF MirrorShape, SaverFits
  <2>7. UNCHANGED <<savingsClock, completedFlag, paidOut, questDbVars>>
    BY <1>4 DEF unlockMilestone
  <2>8. /\ DOMAIN r = DOMAIN p /\ r.balance = p.balance /\ r.progress = done /\ r.yield = p.yield
        /\ r.claimedReward = p.claimedReward
    BY <2>1, <2>5 DEF SaverFits
  <2>9. SaverFits(r)
    BY <2>1, <2>8 DEF SaverFits
  <2>10. DOMAIN paidOut' = Savers /\ (\A u \in Savers : paidOut'[u] = paidOut[u])
         /\ completedFlag' \in [Milestones -> BOOLEAN]
        /\ \A m \in Milestones : completedFlag'[m] => completedFlag[m]
    BY <2>7 DEF MirrorShape
  <2>11. r.balance >= saver[s].balance /\ paidOut'[s] = r.claimedReward /\ r.claimedReward <= r.yield
    BY <2>1, <2>8, <2>10 DEF SaverFits
  <2>12. \A m \in Milestones : saver[s].progress[m] => r.progress[m]
    BY <2>1, <2>3, <2>4, <2>8 DEF SaverFits
  <2>13. QED
    BY ONLY MirrorShape, s \in Savers, <2>6, <2>7, <2>9, <2>10, <2>11, <2>12, SaverWrites
<1>5. ASSUME NEW s \in Savers, claimReward(s) PROVE MirrorShape'
  <2>1. PICK p : p = saver[s] /\ SaverFits(p) /\ p.claimedReward = paidOut[s] /\ paidOut[s] <= p.yield
    BY DEF MirrorShape
  <2>2. claimable(p) = p.yield - p.claimedReward
    BY <1>5, <2>1 DEF claimReward, claimable, claimableTotal, SaverFits
  <2>3. PICK r : r = [p EXCEPT !.claimedReward = AfterClaim(p.claimedReward, claimable(p))]
    OBVIOUS
  <2>4. saver' = [saver EXCEPT ![s] = r] /\ paidOut' = [paidOut EXCEPT ![s] = paidOut[s] + claimable(p)]
    BY <1>5, <2>1, <2>3 DEF claimReward, MirrorShape
  <2>5. UNCHANGED <<savingsClock, completedFlag, questDbVars>>
    BY <1>5 DEF claimReward
  <2>6. AfterClaim(p.claimedReward, claimable(p)) = p.yield
    BY <2>1, <2>2 DEF AfterClaim, SaverFits
  <2>7. /\ DOMAIN r = DOMAIN p /\ r.balance = p.balance /\ r.progress = p.progress /\ r.yield = p.yield
        /\ r.claimedReward = p.yield
    BY <2>1, <2>3, <2>6 DEF SaverFits
  <2>8. SaverFits(r)
    BY <2>1, <2>7 DEF SaverFits
  <2>9. DOMAIN paidOut' = Savers /\ \A t \in Savers : t # s => paidOut'[t] = paidOut[t]
    BY <2>4 DEF MirrorShape
  <2>10. paidOut'[s] = p.yield
    BY <2>1, <2>2, <2>4 DEF MirrorShape, SaverFits
  <2>11. r.balance >= saver[s].balance /\ paidOut'[s] = r.claimedReward /\ r.claimedReward <= r.yield
    BY <2>1, <2>7, <2>10 DEF SaverFits
  <2>12. \A m \in Milestones : saver[s].progress[m] => r.progress[m]
    BY <2>1, <2>7
  <2>13. completedFlag' \in [Milestones -> BOOLEAN] /\ \A m \in Milestones : completedFlag'[m] => completedFlag[m]
    BY <2>5 DEF MirrorShape
  <2>14. QED
    BY ONLY MirrorShape, s \in Savers, <2>4, <2>5, <2>8, <2>9, <2>11, <2>12, <2>13, SaverWrites
<1>6. ASSUME NEW s \in Savers, NEW id, joinChallenge(id, s) PROVE MirrorShape'
  <2>1. PICK z : z = [id |-> id, saver |-> s, balance |-> 0]
    OBVIOUS
  <2>2. FirstHasEscrow(questDb, id)
    BY <1>6, FoundIsFirst DEF joinChallenge
  <2>3. enrolled' = enrolled \cup {z} /\ UNCHANGED <<savingVars, questDb>>
    BY <1>6, <2>1 DEF joinChallenge
  <2>4. DOMAIN z = {"id", "saver", "balance"} /\ z.id = id /\ z.saver = s
    BY <2>1
  <2>5. \A e \in enrolled : ~ (e.id = id /\ e.saver = s)
    BY <1>6 DEF joinChallenge, Enrolment
  <2>6. \A e \in enrolled' : /\ DOMAIN e = {"id", "saver", "balance"} /\ FirstHasEscrow(questDb, e.id)
                             /\ \A f \in enrolled' : f.id = e.id /\ f.saver = e.saver => f = e
    BY <2>2, <2>3, <2>4, <2>5 DEF MirrorShape
  <2>7. QED
    BY <2>3, <2>6 DEF MirrorShape, savingVars
<1>7. ASSUME NEW reward, NEW escrow \in BOOLEAN, createChallenge(reward, escrow) PROVE MirrorShape'
  <2>1. PICK z \in [id : Int, escrow : BOOLEAN] : z = [id |-> savingsClock, escrow |-> escrow]
    BY DEF MirrorShape
  <2>2. questDb' = Append(questDb, z) /\ UNCHANGED <<savingVars, enrolled>>
    BY <1>7, <2>1 DEF createChallenge
  <2>3. questDb \in Seq([id : Int, escrow : BOOLEAN])
    BY DEF MirrorShape
  <2>4. /\ questDb' \in Seq([id : Int, escrow : BOOLEAN]) /\ Len(questDb') = Len(questDb) + 1
        /\ \A i \in 1 .. Len(questDb) : questDb'[i] = questDb[i]
    BY <2>2, <2>3, AppendProperties
  <2>5. DOMAIN questDb = 1 .. Len(questDb) /\ DOMAIN questDb' = 1 .. Len(questDb') /\ Len(questDb) \in Nat
    BY <2>3, <2>4
  <2>6. ASSUME NEW id, FirstHasEscrow(questDb, id) PROVE FirstHasEscrow(questDb', id)
    <3>1. PICK i \in DOMAIN questDb : /\ questDb[i].id = id /\ questDb[i].escrow
                                      /\ \A j \in DOMAIN questDb : questDb[j].id = id => i <= j
      BY <2>6 DEF FirstHasEscrow
    <3>2. i \in DOMAIN questDb' /\ questDb'[i] = questDb[i]
      BY <2>4, <2>5
    <3>3. ASSUME NEW j \in DOMAIN questDb', questDb'[j].id = id PROVE i <= j
      <4>1. CASE j \in DOMAIN questDb
        BY <2>4, <2>5, <3>1, <3>3, <4>1
      <4>2. CASE j \notin DOMAIN questDb
        BY <2>4, <2>5, <4>2
      <4>3. QED
        BY <4>1, <4>2
    <3>4. QED
      BY <3>1, <3>2, <3>3 DEF FirstHasEscrow
  <2>7. \A e \in enrolled : /\ DOMAIN e = {"id", "saver", "balance"} /\ FirstHasEscrow(questDb', e.id)
                            /\ \A f \in enrolled : f.id = e.id /\ f.saver = e.saver => f = e
    BY <2>6 DEF MirrorShape
  <2>8. QED
    BY <2>2, <2>4, <2>7 DEF MirrorShape, savingVars
<1>8. ASSUME NEW e \in enrolled, NEW balance, updateProgress(e, balance) PROVE MirrorShape'
  <2>1. PICK z : z = [e EXCEPT !.balance = balance]
    OBVIOUS
  <2>2. enrolled' = (enrolled \ {e}) \cup {z} /\ UNCHANGED <<savingVars, questDb>>
    BY <1>8, <2>1 DEF updateProgress
  <2>3. DOMAIN e = {"id", "saver", "balance"} /\ FirstHasEscrow(questDb, e.id)
        /\ \A f \in enrolled : f.id = e.id /\ f.saver = e.saver => f = e
    BY DEF MirrorShape
  <2>4. DOMAIN z = {"id", "saver", "balance"} /\ z.id = e.id /\ z.saver = e.saver
    BY <2>1, <2>3
  <2>5. \A f \in enrolled' : /\ DOMAIN f = {"id", "saver", "balance"} /\ FirstHasEscrow(questDb, f.id)
                             /\ \A g \in enrolled' : g.id = f.id /\ g.saver = f.saver => g = f
    BY <2>2, <2>3, <2>4 DEF MirrorShape
  <2>6. QED
    BY <2>2, <2>5 DEF MirrorShape, savingVars
<1>9. CASE UNCHANGED mirrorVars
  BY <1>9 DEF mirrorVars, savingVars, questDbVars, MirrorShape
<1>10. QED
  BY <1>1, <1>2, <1>3, <1>4, <1>5, <1>6, <1>7, <1>8, <1>9 DEF MirrorNext

LEMMA MirrorShapeHolds == MirrorSpec => []MirrorShape
<1>1. MirrorInit => MirrorShape
  <2> SUFFICES ASSUME MirrorInit PROVE MirrorShape
    OBVIOUS
  <2>1. PICK f \in BOOLEAN, t \in BOOLEAN : f = FALSE /\ t = TRUE
    OBVIOUS
  <2>2. PICK none \in [Milestones -> BOOLEAN] : none = [m \in Milestones |-> f]
    OBVIOUS
  <2>3. completedFlag = none /\ \A m \in Milestones : ~ completedFlag[m]
    BY <2>1, <2>2 DEF MirrorInit
  <2>4. PICK p : p = NewParticipation
    OBVIOUS
  <2>5. p = [balance |-> 0, progress |-> none, yield |-> 0, claimedReward |-> 0]
    BY <2>1, <2>2, <2>4 DEF NewParticipation
  <2>6. SaverFits(p) /\ p.claimedReward = 0 /\ p.yield = 0
    BY <2>5 DEF SaverFits
  <2>7. DOMAIN saver = Savers /\ DOMAIN paidOut = Savers /\ \A s \in Savers : saver[s] = p /\ paidOut[s] = 0
    BY <2>4 DEF MirrorInit
  <2>8. PICK q1 \in [id : Int, escrow : BOOLEAN], q2 \in [id : Int, escrow : BOOLEAN] :
          q1 = [id |-> -1, escrow |-> t] /\ q2 = [id |-> -2, escrow |-> t]
    <3>1. \A i \in Int : [id |-> i, escrow |-> t] \in [id : Int, escrow : BOOLEAN]
      OBVIOUS
    <3>2. -1 \in Int /\ -2 \in Int
      OBVIOUS
    <3>3. QED
      BY ONLY <3>1, <3>2
  <2>9. questDb = <<q1, q2>> /\ enrolled = {} /\ savingsClock \in Int
    BY <2>1, <2>8 DEF MirrorInit, seedQuests
  <2>10. questDb \in Seq([id : Int, escrow : BOOLEAN])
    BY <2>9
  <2>11. QED
    BY <2>3, <2>6, <2>7, <2>9, <2>10 DEF MirrorShape
<1>2. QED
  BY <1>1, MirrorShapeStep, PTL DEF MirrorSpec

\* What the client says of a transaction, a retry, a file or a reward is so, for
\* any wallets, rows, nodes, rows of activity and savers: success was confirmed
\* when the flow waits for it, a reload recovers what was on the screen, a row
\* that waits has its timer, a submission goes out at most once and a critical
\* read asks in every attempt, a downloaded file is whole, claims pay what was
\* earned.
THEOREM OutcomesHold ==
    TxSpec /\ RetrySpec /\ PoolSpec /\ ExportSpec /\ MirrorSpec => []OutcomesAreReal
<1>1. TxShape => SuccessIsConfirmed
  BY DEF TxShape, SuccessIsConfirmed
<1>2. SlotFollows => RecordMatchesScreen
  BY DEF SlotFollows, RecordMatchesScreen
<1>3. TxShape /\ SlotFollows /\ BackoffShape /\ CallsCounted /\ ExportShape /\ MirrorShape => OutcomesAreReal
  BY <1>1, <1>2, CallsAreCounted, MirrorIsEarned DEF BackoffShape, ExportShape, OutcomesAreReal
<1>4. QED
  BY <1>3, TxShapeHolds, SlotFollowsHolds, BackoffShapeHolds, CallsCountedHolds, ExportShapeHolds, MirrorShapeHolds, PTL

-----------------------------------------------------------------------------
(* Timers.                                                                   *)

\* A countdown that has stopped is at its end, and has told so at most once.
CountdownHolds ==
  /\ tick \in Nat /\ deadline \in Nat /\ frame \in BOOLEAN /\ completed \in BOOLEAN
  /\ FrozenOnlyAtTheEnd
  /\ reached = IF completed THEN 1 ELSE 0

BridgeHolds ==
  /\ bridgeStep \in Nat /\ elapsed \in Nat /\ stalled \in BOOLEAN
  /\ StalledIsOverdue

\* What is left of the interval and what was watched of it make up the interval;
\* the time since the last frame is watched when the page animates.
RefreshHolds ==
  /\ tick \in Nat /\ period \in Nat /\ left \in Nat /\ watched \in Nat /\ lastUpdate \in Nat /\ hidden \in BOOLEAN
  /\ lastUpdate <= tick /\ ~hasty
  /\ watched + left >= period
  /\ Animating => watched + left >= period + (tick - lastUpdate)

LEMMA CountdownStep ==
    ASSUME CountdownHolds, [TimedNext]_timedVars
    PROVE  CountdownHolds'
<1>1. CASE UNCHANGED <<widget, deadline, frame, phase, completed, reached>> /\ (tick' = tick \/ tick' = tick + 1)
  BY <1>1 DEF CountdownHolds, FrozenOnlyAtTheEnd, Counting, isComplete
<1>2. CASE CountdownFrame
  <2>1. frame' = (~isComplete) /\ UNCHANGED <<widget, tick, deadline, phase>>
    BY <1>2 DEF CountdownFrame
  <2>2. frame' \in BOOLEAN /\ (~frame' => isComplete)
    BY <2>1
  <2>3. completed' \in BOOLEAN /\ reached' = IF completed' THEN 1 ELSE 0
    <3>1. CASE widget = "position" /\ FirstCompletion
      <4>1. completed' = TRUE /\ reached' = reached + 1 /\ ~completed
        BY <1>2, <3>1 DEF CountdownFrame, FirstCompletion
      <4>2. reached = 0
        BY <4>1 DEF CountdownHolds
      <4>3. QED
        BY <4>1, <4>2
    <3>2. CASE ~(widget = "position" /\ FirstCompletion)
      BY <1>2, <3>2 DEF CountdownFrame, CountdownHolds
    <3>3. QED
      BY <3>1, <3>2
  <2>4. isComplete' = isComplete
    BY <2>1 DEF isComplete
  <2>5. QED
    BY <2>1, <2>2, <2>3, <2>4 DEF CountdownHolds, FrozenOnlyAtTheEnd
<1>3. ASSUME NEW d \in 1 .. LastSecond, NewDeadline(d) PROVE CountdownHolds'
  <2>1. d \in Nat
    BY TimedAssumption
  <2>2. /\ deadline' = d /\ frame' = Counting
        /\ UNCHANGED <<widget, tick, phase, completed, reached>>
    BY <1>3 DEF NewDeadline, EffectRestarts
  <2>3. frame' \in BOOLEAN /\ (Counting' => frame')
    BY <2>2 DEF Counting
  <2>4. QED
    BY <2>1, <2>2, <2>3 DEF CountdownHolds, FrozenOnlyAtTheEnd
<1>4. ASSUME NEW p, PositionRenders(p) PROVE CountdownHolds'
  <2>1. /\ widget = "position" /\ phase' = p /\ frame' = (p \notin {"matured", "expired"})
        /\ UNCHANGED <<widget, tick, deadline, completed, reached>>
    BY <1>4 DEF PositionRenders
  <2>2. frame' \in BOOLEAN /\ (Counting' => frame')
    BY <2>1 DEF Counting
  <2>3. QED
    BY <2>1, <2>2 DEF CountdownHolds, FrozenOnlyAtTheEnd
<1>5. \/ UNCHANGED <<widget, deadline, frame, phase, completed, reached>> /\ (tick' = tick \/ tick' = tick + 1)
      \/ CountdownFrame \/ \E d \in 1 .. LastSecond : NewDeadline(d)
      \/ \E p : PositionRenders(p)
  BY DEF TimedNext, timedVars, countdownVars, Tick, BridgeSecond, RefreshFrame, VisibilityChange, SetBridgeStep,
         ChooseInterval, ToastTimeout, DismissToast, removeToast, addToast
<1>6. QED
  BY <1>1, <1>2, <1>3, <1>4, <1>5

LEMMA BridgeStepHolds ==
    ASSUME BridgeHolds, [TimedNext]_timedVars
    PROVE  BridgeHolds'
<1>1. CASE UNCHANGED bridgeVars
  BY <1>1 DEF BridgeHolds, bridgeVars, StalledIsOverdue, BridgeDone
<1>2. ASSUME NEW s \in 0 .. BridgeSteps - 1, SetBridgeStep(s) PROVE BridgeHolds'
  <2>1. bridgeStep' = s /\ elapsed' = elapsed /\ stalled' = (stalled /\ ~BridgeDone(s)) /\ s \in Nat
    BY <1>2, TimedAssumption DEF SetBridgeStep, ClearsStall
  <2>2. stalled' \in BOOLEAN /\ (stalled' => stalled /\ ~BridgeDone(s))
    BY <2>1
  <2>3. BridgeDone(bridgeStep)' = BridgeDone(s)
    BY <2>1 DEF BridgeDone
  <2>4. QED
    BY <2>1, <2>2, <2>3 DEF BridgeHolds, StalledIsOverdue
<1>3. CASE BridgeSecond
  <2>1. /\ ~BridgeDone(bridgeStep) /\ elapsed' = elapsed + 1 /\ bridgeStep' = bridgeStep
        /\ stalled' = (stalled \/ 2 * elapsed' > 3 * EstimatedTime)
    BY <1>3 DEF BridgeSecond
  <2>2. PICK e, t \in Nat : e = elapsed /\ t = EstimatedTime
    BY TimedAssumption DEF BridgeHolds
  <2>3. stalled => 2 * e > 3 * t
    BY <2>2 DEF BridgeHolds, StalledIsOverdue
  <2>4. stalled' \in BOOLEAN /\ (stalled' => 2 * (e + 1) > 3 * t)
    <3>1. stalled' = (stalled \/ 2 * (e + 1) > 3 * t)
      BY <2>1, <2>2
    <3>2. 2 * e > 3 * t => 2 * (e + 1) > 3 * t
      BY <2>2
    <3>3. QED
      BY <2>3, <3>1, <3>2
  <2>5. ~BridgeDone(bridgeStep)'
    BY <2>1 DEF BridgeDone
  <2>6. QED
    BY <2>1, <2>2, <2>4, <2>5 DEF BridgeHolds, StalledIsOverdue
<1>4. UNCHANGED bridgeVars \/ BridgeSecond \/ \E s \in 0 .. BridgeSteps - 1 : SetBridgeStep(s)
  BY DEF TimedNext, timedVars, bridgeVars, countdownVars, refreshVars, Tick, CountdownFrame, NewDeadline,
         PositionRenders, RefreshFrame, VisibilityChange, ChooseInterval, ToastTimeout, DismissToast, removeToast,
         addToast
<1>5. QED
  BY <1>1, <1>2, <1>3, <1>4

LEMMA RefreshStep ==
    ASSUME RefreshHolds, [TimedNext]_timedVars
    PROVE  RefreshHolds'
<1>1. CASE UNCHANGED <<widget, tick>> /\ UNCHANGED refreshVars
  BY <1>1 DEF RefreshHolds, refreshVars, Animating
<1>2. CASE Tick
  <2>1. UNCHANGED <<widget, period, left, hidden, lastUpdate, hasty>> /\ tick' = tick + 1
    BY <1>2 DEF Tick
  <2>2. watched' = IF Animating THEN watched + 1 ELSE watched
    BY <1>2 DEF Tick
  <2>3. Animating' = Animating
    BY <2>1 DEF Animating
  <2>4. QED
    BY <2>1, <2>2, <2>3 DEF RefreshHolds
<1>3. CASE RefreshFrame
  <2>1. Animating /\ lastUpdate' = tick /\ UNCHANGED <<widget, tick, period, hidden>>
    BY <1>3 DEF RefreshFrame
  <2>2. PICK delta \in Nat : delta = tick - lastUpdate
    BY DEF RefreshHolds
  <2>3. CASE left <= delta
    <3>1. left' = period /\ watched' = 0 /\ hasty' = (hasty \/ watched < period)
      BY <1>3, <2>2, <2>3 DEF RefreshFrame
    <3>2. ~(watched < period)
      BY <2>1, <2>2, <2>3 DEF RefreshHolds
    <3>3. ~hasty'
      BY <3>1, <3>2 DEF RefreshHolds
    <3>4. QED
      BY <2>1, <3>1, <3>3 DEF RefreshHolds
  <2>4. CASE ~(left <= delta)
    <3>1. left' = left - delta /\ UNCHANGED <<watched, hasty>>
      BY <1>3, <2>2, <2>4 DEF RefreshFrame
    <3>2. left' \in Nat /\ watched + left' >= period
      BY <2>1, <2>2, <2>4, <3>1 DEF RefreshHolds
    <3>3. QED
      BY <2>1, <3>1, <3>2 DEF RefreshHolds
  <2>5. QED
    BY <2>3, <2>4
<1>4. CASE VisibilityChange
  <2>1. /\ hidden' = ~hidden /\ UNCHANGED <<widget, tick, period, left, watched, hasty>>
        /\ lastUpdate' = IF hidden /\ period # 0 THEN tick ELSE lastUpdate
    BY <1>4 DEF VisibilityChange, ResumesAt
  <2>2. Animating' => lastUpdate' = tick
    BY <2>1 DEF Animating, RefreshHolds
  <2>3. lastUpdate' \in Nat /\ lastUpdate' <= tick /\ hidden' \in BOOLEAN
    BY <2>1 DEF RefreshHolds
  <2>4. QED
    BY <2>1, <2>2, <2>3 DEF RefreshHolds
<1>5. ASSUME NEW v \in Intervals, ChooseInterval(v) PROVE RefreshHolds'
  <2>1. /\ period' = v /\ left' = v /\ watched' = 0 /\ UNCHANGED <<widget, tick, hidden, hasty>>
        /\ lastUpdate' = IF v # 0 /\ ~hidden THEN tick ELSE lastUpdate
    BY <1>5 DEF ChooseInterval
  <2>2. Animating' => lastUpdate' = tick
    BY <2>1 DEF Animating
  <2>3. lastUpdate' \in Nat /\ lastUpdate' <= tick /\ v \in Nat
    BY <2>1, TimedAssumption DEF RefreshHolds
  <2>4. QED
    BY <2>1, <2>2, <2>3 DEF RefreshHolds
<1>6. \/ UNCHANGED <<widget, tick>> /\ UNCHANGED refreshVars
      \/ Tick \/ RefreshFrame \/ VisibilityChange \/ \E v \in Intervals : ChooseInterval(v)
  BY DEF TimedNext, timedVars, refreshVars, BridgeSecond, CountdownFrame, NewDeadline, PositionRenders, SetBridgeStep,
         ToastTimeout, DismissToast, removeToast, addToast
<1>7. QED
  BY <1>1, <1>2, <1>3, <1>4, <1>5, <1>6

LEMMA TimersHold == TimedSpec => [](CountdownHolds /\ BridgeHolds /\ RefreshHolds)
<1>1. TimedInit => CountdownHolds /\ BridgeHolds
  <2> SUFFICES ASSUME TimedInit PROVE CountdownHolds /\ BridgeHolds
    OBVIOUS
  <2>1. tick \in Nat /\ deadline \in Nat /\ frame = TRUE /\ completed = FALSE /\ reached = 0
    BY DEF TimedInit
  <2>2. bridgeStep \in Nat /\ elapsed \in Nat /\ stalled = FALSE
    BY DEF TimedInit
  <2>3. CountdownHolds
    BY <2>1 DEF CountdownHolds, FrozenOnlyAtTheEnd
  <2>4. BridgeHolds
    BY <2>2 DEF BridgeHolds, StalledIsOverdue
  <2>5. QED
    BY <2>3, <2>4
<1>2. TimedInit => RefreshHolds
  <2> SUFFICES ASSUME TimedInit PROVE RefreshHolds
    OBVIOUS
  <2>1. tick = 0 /\ period \in Nat /\ left = period /\ hidden = FALSE /\ lastUpdate = 0 /\ watched = 0 /\ hasty = FALSE
    BY TimedAssumption DEF TimedInit
  <2>2. ~hasty /\ hidden \in BOOLEAN
    BY <2>1
  <2>3. watched + left >= period /\ watched + left >= period + (tick - lastUpdate)
    BY <2>1
  <2>4. QED
    BY <2>1, <2>2, <2>3 DEF RefreshHolds
<1>3. QED
  BY <1>1, <1>2, CountdownStep, BridgeStepHolds, RefreshStep, PTL DEF TimedSpec

LEMMA TimersAreSo ==
  CountdownHolds /\ BridgeHolds /\ RefreshHolds =>
    FrozenOnlyAtTheEnd /\ MaturityToldOnce /\ StalledIsOverdue /\ RefreshesAreSpaced
BY DEF CountdownHolds, BridgeHolds, RefreshHolds, MaturityToldOnce, RefreshesAreSpaced

-----------------------------------------------------------------------------
(* The fee selector.                                                         *)

\* A request that is not cancelled is for the selected network.
FeeHolds ==
  /\ loads \subseteq [network : NETWORKS, cancelled : BOOLEAN]
  /\ \A l \in loads : ~l.cancelled => l.network = network
  /\ network \in NETWORKS
  /\ PriceOfNetwork

LEMMA FeeStep ==
    ASSUME FeeHolds, [DialogNext]_dialogVars
    PROVE  FeeHolds'
<1>1. CASE UNCHANGED <<dialog, network, gasPrice, loads>>
  BY <1>1 DEF FeeHolds, PriceOfNetwork, isLoading
<1>2. CASE setNetworkKey
  <2>1. PICK n \in NETWORKS : network' = n /\ Reload(n)
    BY <1>2 DEF setNetworkKey
  <2>2. PICK fresh \in [network : NETWORKS, cancelled : BOOLEAN] :
          fresh = [network |-> n, cancelled |-> FALSE] /\ fresh.network = n /\ ~fresh.cancelled
    <3>1. [network |-> n, cancelled |-> FALSE] \in [network : NETWORKS, cancelled : BOOLEAN]
      OBVIOUS
    <3>2. QED
      BY <3>1
  <2>3. \A l \in loads : /\ [l EXCEPT !.cancelled = TRUE] \in [network : NETWORKS, cancelled : BOOLEAN]
                         /\ [l EXCEPT !.cancelled = TRUE].cancelled
    BY DEF FeeHolds
  <2>4. \A l \in loads' : l \in [network : NETWORKS, cancelled : BOOLEAN] /\ (l = fresh \/ l.cancelled)
    BY <2>1, <2>2, <2>3 DEF Reload
  <2>5. fresh \in loads' /\ ~fresh.cancelled
    BY <2>1, <2>2 DEF Reload
  <2>6. isLoading'
    BY <2>5 DEF isLoading
  <2>7. QED
    BY <2>1, <2>2, <2>4, <2>6 DEF FeeHolds, PriceOfNetwork
<1>3. ASSUME NEW l \in loads, loadFees(l) PROVE FeeHolds'
  <2>1. /\ loads' = loads \ {l} /\ gasPrice' = IF ~l.cancelled THEN l.network ELSE gasPrice
        /\ UNCHANGED <<dialog, network>>
    BY <1>3 DEF loadFees, Applies
  <2>2. PriceOfNetwork'
    <3>1. CASE l.cancelled
      <4>1. isLoading => isLoading'
        BY <2>1, <3>1 DEF isLoading
      <4>2. QED
        BY <2>1, <3>1, <4>1 DEF FeeHolds, PriceOfNetwork
    <3>2. CASE ~l.cancelled
      BY <1>3, <2>1, <3>2 DEF FeeHolds, PriceOfNetwork
    <3>3. QED
      BY <3>1, <3>2
  <2>3. QED
    BY <2>1, <2>2 DEF FeeHolds
<1>4. UNCHANGED <<dialog, network, gasPrice, loads>> \/ setNetworkKey \/ \E l \in loads : loadFees(l)
  BY DEF DialogNext, dialogVars, feeVars, setAmount, handleQuickAmount, LimitMoves, handleRefresh, handleContinue,
         ContinueRefreshed, Back, handleConfirm, Broadcast, onClose, EditTo
<1>5. QED
  BY <1>1, <1>2, <1>3, <1>4

LEMMA FeesHold == DialogSpec => []FeeHolds
<1>1. DialogInit => FeeHolds
  <2> SUFFICES ASSUME DialogInit PROVE FeeHolds
    OBVIOUS
  <2>1. PICK first \in [network : NETWORKS, cancelled : BOOLEAN] :
          first = [network |-> "avalanche", cancelled |-> FALSE] /\ first.network = "avalanche" /\ ~first.cancelled
    <3>1. [network |-> "avalanche", cancelled |-> FALSE] \in [network : NETWORKS, cancelled : BOOLEAN]
      BY DEF NETWORKS
    <3>2. QED
      BY <3>1
  <2>2. network = "avalanche" /\ loads = IF dialog = "app" THEN {first} ELSE {}
    BY <2>1 DEF DialogInit
  <2>3. dialog = "app" => isLoading
    BY <2>1, <2>2 DEF isLoading
  <2>4. loads \subseteq {first}
    BY <2>2
  <2>5. QED
    BY <2>1, <2>2, <2>3, <2>4 DEF FeeHolds, PriceOfNetwork, NETWORKS
<1>2. QED
  BY <1>1, FeeStep, PTL DEF DialogSpec

-----------------------------------------------------------------------------
(* The status banner.                                                        *)

\* After every number there is a multiple before a whole period has passed.
LEMMA NextMultiple ==
    ASSUME NEW x \in Nat, NEW n \in Nat \ {0}
    PROVE  \E t \in Nat : t % n = 0 /\ x < t /\ t <= x + n
<1>1. PICK q \in Nat, r \in Nat : x = n * q + r /\ r < n
  <2>1. PICK q \in Nat : q = x \div n
    OBVIOUS
  <2>2. PICK r \in Nat : r = x % n
    OBVIOUS
  <2>3. x = n * q + r /\ r < n
    BY <2>1, <2>2
  <2>4. QED
    BY <2>3
<1>2. PICK t \in Nat : t = n * (q + 1)
  OBVIOUS
<1>3. t = n * q + n
  BY <1>2
<1>4. x < t /\ t <= x + n
  <2>1. n * q \in Nat
    OBVIOUS
  <2>2. QED
    BY <1>1, <1>3, <2>1
<1>5. t % n = 0
  <2>1. PICK k \in Nat, s \in Nat : t = n * k + s /\ s < n /\ s = t % n
    <3>1. PICK k \in Nat : k = t \div n
      OBVIOUS
    <3>2. PICK s \in Nat : s = t % n
      OBVIOUS
    <3>3. t = n * k + s /\ s < n
      BY <3>1, <3>2
    <3>4. QED
      BY <3>2, <3>3
  <2>2. PICK m \in Int : m = (q + 1) - k
    OBVIOUS
  <2>3. s = n * m
    BY <1>2, <2>1, <2>2
  <2>4. m >= 1 => n * m >= n
    OBVIOUS
  <2>5. m <= -1 => n * m <= -n
    OBVIOUS
  <2>6. m = 0 => n * m = 0
    OBVIOUS
  <2>7. QED
    BY <2>1, <2>3, <2>4, <2>5, <2>6
<1>6. QED
  BY <1>4, <1>5

Check == [began : Nat, found : [Endpoints -> {"waiting", "operational", "outage", "degraded"}]]

Told(e) == bannerShows # <<>> /\ bannerShows[e] # "operational"

\* No check is awaited for longer than a fetch may take.
ChecksEnd == \A c \in checks : c.began <= moment /\ moment <= c.began + AbortAfter

\* A check that began after the trouble does not find the endpoint well.
FoundSick(e) == \A c \in checks : c.began > sickSince[e] => c.found[e] # "operational"

\* Every check of the interval that began when no check from before the trouble
\* was awaited any more has told of it, is awaited or is about to begin.
Attended(e) ==
  \A t \in Nat :
    t % CheckEvery = 0 /\ sickSince[e] + AbortAfter < t /\ t <= moment =>
      Told(e) \/ (t = moment /\ tickDue) \/ \E c \in checks : c.began = t

BannerHolds ==
  /\ moment \in Nat /\ tickDue \in BOOLEAN
  /\ world \in [Endpoints -> {"up", "slow", "down"}]
  /\ sickSince \in [Endpoints -> Nat] /\ \A e \in Endpoints : sickSince[e] <= moment
  /\ checks \subseteq Check /\ ChecksEnd
  /\ \A e \in Endpoints : world[e] # "up" => FoundSick(e) /\ Attended(e)

LEMMA NewChecks == ASSUME NEW n \in Nat PROVE
  /\ NewCheck(n) \in Check /\ NewCheck(n).began = n
  /\ \A e \in Endpoints : NewCheck(n).found[e] = "waiting"
BY DEF NewCheck, Check

LEMMA BannerStarts == BannerInit => BannerHolds
<1> SUFFICES ASSUME BannerInit PROVE BannerHolds
  OBVIOUS
<1>1. moment = 0 /\ world = [e \in Endpoints |-> "up"] /\ sickSince = [e \in Endpoints |-> 0]
      /\ checks = {NewCheck(0)} /\ tickDue = FALSE
  BY DEF BannerInit
<1>2. checks \subseteq Check /\ ChecksEnd
  BY <1>1, NewChecks, BannerAssumption DEF ChecksEnd
<1>3. \A e \in Endpoints : world[e] = "up" /\ sickSince[e] = 0
  BY <1>1
<1>4. world \in [Endpoints -> {"up", "slow", "down"}] /\ sickSince \in [Endpoints -> Nat]
  BY <1>1
<1>5. moment \in Nat /\ \A e \in Endpoints : sickSince[e] <= moment
  BY <1>1, <1>3
<1>6. tickDue \in BOOLEAN
  BY <1>1
<1>7. QED
  BY <1>2, <1>3, <1>4, <1>5, <1>6 DEF BannerHolds

\* A check begins, of the interval or asked for.
LEMMA CheckBegins ==
    ASSUME BannerHolds, IntervalCheck \/ Refresh
    PROVE  BannerHolds'
<1>1. PICK n \in Check : /\ n = NewCheck(moment) /\ n.began = moment
                         /\ \A e \in Endpoints : n.found[e] = "waiting"
  BY NewChecks DEF BannerHolds
<1>2. checks' = checks \cup {n} /\ UNCHANGED <<moment, world, sickSince, bannerShows>>
  BY <1>1 DEF IntervalCheck, Refresh
<1>3. tickDue' \in BOOLEAN
  BY DEF IntervalCheck, Refresh, BannerHolds
<1>4. ChecksEnd'
  BY <1>1, <1>2, BannerAssumption DEF ChecksEnd, BannerHolds
<1>5. ASSUME NEW e \in Endpoints, world[e] # "up" PROVE FoundSick(e)' /\ Attended(e)'
  <2>1. FoundSick(e)'
    BY <1>1, <1>2, <1>5 DEF FoundSick, BannerHolds
  <2>2. ASSUME NEW t \in Nat, t % CheckEvery = 0, sickSince[e] + AbortAfter < t, t <= moment
        PROVE  Told(e) \/ (t = moment /\ tickDue') \/ \E c \in checks' : c.began = t
    <3>1. Told(e) \/ t = moment \/ \E c \in checks : c.began = t
      BY <1>5, <2>2 DEF Attended, BannerHolds
    <3>2. QED
      BY <1>1, <1>2, <3>1
  <2>3. Attended(e)'
    BY <1>2, <2>2 DEF Attended, Told
  <2>4. QED
    BY <2>1, <2>3
<1>6. QED
  BY <1>1, <1>2, <1>3, <1>4, <1>5 DEF BannerHolds

\* A fetch settles; when it is the last one its check is over and shown.
LEMMA FetchHolds ==
    ASSUME BannerHolds, NEW c \in checks, NEW d \in Endpoints, FetchSettles(c, d)
    PROVE  BannerHolds'
<1>1. PICK f \in Finding(c, d) :
        LET found == [c.found EXCEPT ![d] = f] IN
        IF \A e \in Endpoints : found[e] # "waiting"
          THEN checks' = checks \ {c} /\ bannerShows' = found
          ELSE checks' = (checks \ {c}) \cup {[c EXCEPT !.found = found]} /\ UNCHANGED bannerShows
  BY DEF FetchSettles
<1>2. UNCHANGED <<moment, world, sickSince, tickDue>>
  BY DEF FetchSettles
<1>3. c \in Check /\ c.began \in Nat /\ c.found \in [Endpoints -> {"waiting", "operational", "outage", "degraded"}]
      /\ c.began <= moment /\ moment <= c.began + AbortAfter
  BY DEF BannerHolds, ChecksEnd, Check
<1>4. PICK g \in [Endpoints -> {"waiting", "operational", "outage", "degraded"}] : g = [c.found EXCEPT ![d] = f]
  <2>1. f \in {"waiting", "operational", "outage", "degraded"}
    BY DEF Finding
  <2>2. QED
    BY <1>3, <2>1
<1>5. ASSUME NEW e \in Endpoints, world[e] # "up", c.began > sickSince[e] PROVE g[e] # "operational"
  <2>1. c.found[e] # "operational"
    BY <1>5 DEF BannerHolds, FoundSick
  <2>2. d = e => f # "operational"
    BY <1>5 DEF Finding
  <2>3. QED
    BY <1>3, <1>4, <2>1, <2>2
<1>6. PICK n \in Check : n = [c EXCEPT !.found = g] /\ n.began = c.began /\ n.found = g
  <2>1. PICK n : n = [c EXCEPT !.found = g]
    OBVIOUS
  <2>2. n \in Check
    BY <1>3, <1>4, <2>1 DEF Check
  <2>3. n.began = c.began /\ n.found = g
    BY <1>3, <2>1 DEF Check
  <2>4. QED
    BY <2>1, <2>2, <2>3
<1>7. \/ checks' = checks \ {c} /\ bannerShows' = g
      \/ checks' = (checks \ {c}) \cup {n} /\ bannerShows' = bannerShows
  BY <1>1, <1>4, <1>6
<1>8. \A k \in checks' : k \in checks \/ k = n
  BY <1>7
<1>9. checks' \subseteq Check /\ ChecksEnd'
  BY <1>2, <1>3, <1>6, <1>8 DEF BannerHolds, ChecksEnd
<1>10. ASSUME NEW e \in Endpoints, world[e] # "up" PROVE FoundSick(e)' /\ Attended(e)'
  <2>1. FoundSick(e)'
    BY <1>2, <1>5, <1>6, <1>8, <1>10 DEF BannerHolds, FoundSick
  <2>2. ASSUME NEW t \in Nat, t % CheckEvery = 0, sickSince[e] + AbortAfter < t, t <= moment
        PROVE  Told(e)' \/ (t = moment /\ tickDue) \/ \E k \in checks' : k.began = t
    <3>1. Told(e) \/ (t = moment /\ tickDue) \/ \E k \in checks : k.began = t
      BY <1>10, <2>2 DEF Attended, BannerHolds
    <3>2. CASE checks' = checks \ {c} /\ bannerShows' = g
      <4>1. c.began > sickSince[e]
        BY <1>3, <2>2, BannerAssumption DEF BannerHolds
      <4>2. g[e] # "operational" /\ g # <<>>
        <5>1. g[e] # "operational"
          BY <1>5, <1>10, <4>1
        <5>2. DOMAIN g = Endpoints /\ DOMAIN <<>> = {}
          OBVIOUS
        <5>3. QED
          BY <5>1, <5>2
      <4>3. QED
        BY <3>2, <4>2 DEF Told
    <3>3. CASE checks' = (checks \ {c}) \cup {n} /\ bannerShows' = bannerShows
      BY <1>6, <3>1, <3>3 DEF Told
    <3>4. QED
      BY <1>7, <3>2, <3>3
  <2>3. Attended(e)'
    BY <1>2, <2>2 DEF Attended
  <2>4. QED
    BY <2>1, <2>3
<1>11. QED
  BY <1>2, <1>9, <1>10 DEF BannerHolds

LEMMA WorldMoves ==
    ASSUME BannerHolds, NEW d \in Endpoints, NEW s \in {"up", "slow", "down"}, WorldChanges(d, s)
    PROVE  BannerHolds'
<1>1. /\ world' = [world EXCEPT ![d] = s]
      /\ sickSince' = [sickSince EXCEPT ![d] = CASE s = "up" -> 0 [] world[d] = "up" -> moment [] OTHER -> @]
      /\ UNCHANGED <<moment, checks, bannerShows, tickDue>>
  BY DEF WorldChanges
<1>2. PICK v \in Nat : /\ v = CASE s = "up" -> 0 [] world[d] = "up" -> moment [] OTHER -> sickSince[d]
                       /\ v <= moment
                       /\ s # "up" => v = IF world[d] = "up" THEN moment ELSE sickSince[d]
  <2>1. CASE s = "up"
    BY <2>1 DEF BannerHolds
  <2>2. CASE s # "up" /\ world[d] = "up"
    BY <2>2 DEF BannerHolds
  <2>3. CASE s # "up" /\ world[d] # "up"
    BY <2>3 DEF BannerHolds
  <2>4. QED
    BY <2>1, <2>2, <2>3
<1>3. sickSince' = [sickSince EXCEPT ![d] = v]
  BY <1>1, <1>2 DEF BannerHolds
<1>4. /\ world' \in [Endpoints -> {"up", "slow", "down"}] /\ sickSince' \in [Endpoints -> Nat]
      /\ \A e \in Endpoints : sickSince'[e] <= moment
  BY <1>1, <1>2, <1>3 DEF BannerHolds
<1>5. ASSUME NEW e \in Endpoints, world'[e] # "up" PROVE FoundSick(e)' /\ Attended(e)'
  <2>1. CASE world[e] # "up"
    <3>1. sickSince'[e] = sickSince[e]
      BY <1>1, <1>2, <1>3, <1>5, <2>1 DEF BannerHolds
    <3>2. QED
      BY <1>1, <2>1, <3>1 DEF BannerHolds, FoundSick, Attended, Told
  <2>2. CASE world[e] = "up"
    <3>1. e = d /\ sickSince'[e] = moment
      BY <1>1, <1>2, <1>3, <1>5, <2>2 DEF BannerHolds
    <3>2. \A c \in checks : c.began \in Nat /\ c.began <= moment
      BY DEF BannerHolds, ChecksEnd, Check
    <3>3. FoundSick(e)'
      BY <1>1, <3>1, <3>2 DEF FoundSick, BannerHolds
    <3>4. Attended(e)'
      BY <1>1, <3>1, BannerAssumption DEF Attended, BannerHolds
    <3>5. QED
      BY <3>3, <3>4
  <2>3. QED
    BY <2>1, <2>2
<1>6. QED
  BY <1>1, <1>4, <1>5 DEF BannerHolds, ChecksEnd

LEMMA MomentPasses ==
    ASSUME BannerHolds, Pass
    PROVE  BannerHolds'
<1>1. /\ ~tickDue /\ \A c \in checks : ~ (moment >= c.began + AbortAfter)
      /\ moment' = moment + 1 /\ tickDue' = (moment' % CheckEvery = 0)
      /\ UNCHANGED <<world, sickSince, checks, bannerShows>>
  BY DEF Pass, Overdue
<1>2. moment' \in Nat /\ tickDue' \in BOOLEAN
  BY <1>1 DEF BannerHolds
<1>3. ChecksEnd'
  <2>1. ASSUME NEW c \in checks PROVE c.began <= moment' /\ moment' <= c.began + AbortAfter
    <3>1. c.began \in Nat /\ c.began <= moment /\ moment \in Nat /\ AbortAfter \in Nat
      BY BannerAssumption DEF BannerHolds, ChecksEnd, Check
    <3>2. QED
      BY <1>1, <3>1
  <2>2. QED
    BY <1>1, <2>1 DEF ChecksEnd
<1>4. ASSUME NEW e \in Endpoints, world[e] # "up" PROVE FoundSick(e)' /\ Attended(e)'
  <2>1. FoundSick(e)'
    BY <1>1, <1>4 DEF BannerHolds, FoundSick
  <2>2. ASSUME NEW t \in Nat, t % CheckEvery = 0, sickSince[e] + AbortAfter < t, t <= moment'
        PROVE  Told(e) \/ (t = moment' /\ tickDue') \/ \E c \in checks : c.began = t
    <3>1. CASE t = moment'
      BY <1>1, <2>2, <3>1
    <3>2. CASE t <= moment
      BY <1>1, <1>4, <2>2, <3>2 DEF BannerHolds, Attended
    <3>3. QED
      BY <1>1, <2>2, <3>1, <3>2 DEF BannerHolds
  <2>3. Attended(e)'
    BY <1>1, <2>2 DEF Attended, Told
  <2>4. QED
    BY <2>1, <2>3
<1>5. QED
  BY <1>1, <1>2, <1>3, <1>4 DEF BannerHolds

LEMMA BannerHoldsAlways == BannerSpec => []BannerHolds
<1>1. ASSUME BannerHolds, [BannerNext]_bannerVars PROVE BannerHolds'
  <2>1. CASE UNCHANGED bannerVars
    <3>1. UNCHANGED <<moment, world, sickSince, checks, bannerShows, tickDue>>
      BY <2>1 DEF bannerVars
    <3>2. \A e \in Endpoints : FoundSick(e) => FoundSick(e)'
      BY <3>1 DEF FoundSick
    <3>3. \A e \in Endpoints : Attended(e) => Attended(e)'
      BY <3>1 DEF Attended, Told
    <3>4. ChecksEnd'
      BY <1>1, <3>1 DEF ChecksEnd, BannerHolds
    <3>5. QED
      BY <1>1, <3>1, <3>2, <3>3, <3>4 DEF BannerHolds
  <2>2. QED
    BY <1>1, <2>1, CheckBegins, FetchHolds, WorldMoves, MomentPasses DEF BannerNext
<1>2. QED
  BY <1>1, BannerStarts, PTL DEF BannerSpec

LEMMA LastingTroubleIsTold == BannerHolds => TroubleIsTold
<1> SUFFICES ASSUME BannerHolds, NEW e \in Endpoints, world[e] # "up",
                    moment - sickSince[e] > CheckEvery + 2 * AbortAfter
             PROVE  hasIssues
  BY DEF TroubleIsTold
<1>1. PICK s \in Nat, m \in Nat, a \in Nat, p \in Nat \ {0} :
        s = sickSince[e] /\ m = moment /\ a = AbortAfter /\ p = CheckEvery
  BY BannerAssumption DEF BannerHolds
<1>2. PICK t \in Nat : t % p = 0 /\ s + a < t /\ t <= (s + a) + p
  <2>1. PICK x \in Nat : x = s + a
    OBVIOUS
  <2>2. \E t \in Nat : t % p = 0 /\ x < t /\ t <= x + p
    BY NextMultiple
  <2>3. QED
    BY <2>1, <2>2
<1>3. m - s > p + 2 * a
  BY <1>1
<1>4. t < m /\ t + a < m
  BY <1>2, <1>3
<1>5. ~ \E c \in checks : c.began = t
  BY <1>1, <1>4 DEF BannerHolds, ChecksEnd
<1>6. Attended(e)
  BY DEF BannerHolds
<1>7. Told(e)
  BY <1>1, <1>2, <1>4, <1>5, <1>6 DEF Attended
<1>8. QED
  BY <1>7 DEF Told, hasIssues

-----------------------------------------------------------------------------
(* The archive. A stable sort has a result because the positions of a      *)
(* sequence, ordered by what they hold and then by themselves, can be      *)
(* listed: each new position is put where it belongs among the others.     *)

\* R puts one of any two of 1 .. n before the other.
Lines(R, n) ==
  /\ \A i \in 1 .. n : ~ (<<i, i>> \in R)
  /\ \A i, j \in 1 .. n : i # j => <<i, j>> \in R \/ <<j, i>> \in R
  /\ \A i, j, k \in 1 .. n : <<i, j>> \in R /\ <<j, k>> \in R => <<i, k>> \in R

Lists(p, R, n) ==
  /\ p \in [1 .. n -> 1 .. n]
  /\ \A w \in 1 .. n : \E v \in 1 .. n : p[v] = w
  /\ \A i, j \in 1 .. n : i < j => <<p[i], p[j]>> \in R

\* One more position is put where it belongs.
LEMMA OneMoreListed ==
    ASSUME NEW n \in Nat, NEW R, Lines(R, n + 1), NEW p, Lists(p, R, n)
    PROVE  \E q : Lists(q, R, n + 1)
<1>0. /\ \A i \in 1 .. n : p[i] \in 1 .. n /\ i \in 1 .. n + 1
      /\ \A i \in 1 .. n : p[i] \in 1 .. n + 1 /\ p[i] # n + 1
      /\ n + 1 \in 1 .. n + 1
  <2>1. \A i \in 1 .. n : p[i] \in 1 .. n
    BY DEF Lists
  <2>2. QED
    BY <2>1
<1>1. PICK S : S = {i \in 1 .. n + 1 : i = n + 1 \/ <<n + 1, p[i]>> \in R}
  OBVIOUS
<1>20. S \in SUBSET Nat
  BY <1>1
<1>2. n + 1 \in S
  BY <1>0, <1>1
<1>3. PICK m \in S : \A f \in S : m <= f
  BY <1>2, <1>20, SmallestMember
<1>4. m \in 1 .. n + 1 /\ (m # n + 1 => <<n + 1, p[m]>> \in R)
  BY <1>1
<1>5. \A i \in 1 .. n : i < m => <<p[i], n + 1>> \in R
  <2> SUFFICES ASSUME NEW i \in 1 .. n, i < m PROVE <<p[i], n + 1>> \in R
    OBVIOUS
  <2>1. i \notin S
    BY <1>3, <1>20
  <2>2. ~ (<<n + 1, p[i]>> \in R)
    BY <1>0, <1>1, <2>1
  <2>3. p[i] \in 1 .. n + 1 /\ n + 1 \in 1 .. n + 1 /\ p[i] # n + 1
    BY <1>0
  <2>4. QED
    BY <2>2, <2>3 DEF Lines
<1>6. PICK q : q = [i \in 1 .. n + 1 |-> IF i < m THEN p[i] ELSE IF i = m THEN n + 1 ELSE p[i - 1]]
  OBVIOUS
<1>7. \A i \in 1 .. n + 1 : /\ i < m => i \in 1 .. n /\ q[i] = p[i]
                            /\ i = m => q[i] = n + 1
                            /\ i > m => i - 1 \in 1 .. n /\ q[i] = p[i - 1]
  BY <1>4, <1>6
<1>8. q \in [1 .. n + 1 -> 1 .. n + 1]
  <2>1. \A i \in 1 .. n + 1 : q[i] \in 1 .. n + 1
    BY <1>0, <1>4, <1>7
  <2>2. QED
    BY <1>6, <2>1
<1>9. ASSUME NEW w \in 1 .. n + 1 PROVE \E v \in 1 .. n + 1 : q[v] = w
  <2>1. CASE w = n + 1
    BY <1>4, <1>7, <2>1
  <2>2. CASE w # n + 1
    <3>1. PICK v \in 1 .. n : p[v] = w
      BY <2>2 DEF Lists
    <3>2. CASE v < m
      BY <1>7, <3>1, <3>2
    <3>3. CASE ~ (v < m)
      <4>1. PICK x \in 1 .. n + 1 : x = v + 1
        OBVIOUS
      <4>2. x > m /\ x - 1 = v
        BY <1>4, <3>3, <4>1
      <4>3. QED
        BY <1>7, <3>1, <4>2
    <3>4. QED
      BY <3>2, <3>3
  <2>3. QED
    BY <2>1, <2>2
<1>10. ASSUME NEW i \in 1 .. n + 1, NEW j \in 1 .. n + 1, i < j PROVE <<q[i], q[j]>> \in R
  <2>1. CASE j < m
    <3>1. i \in 1 .. n /\ j \in 1 .. n /\ q[i] = p[i] /\ q[j] = p[j]
      BY <1>4, <1>7, <1>10, <2>1
    <3>2. QED
      BY <1>10, <3>1 DEF Lists
  <2>2. CASE j = m
    BY <1>4, <1>5, <1>7, <1>10, <2>2
  <2>3. CASE j > m
    <3>1. PICK y \in 1 .. n : y = j - 1 /\ q[j] = p[y]
      BY <1>7, <2>3
    <3>2. CASE i < m
      <4>1. i \in 1 .. n /\ i < y /\ q[i] = p[i]
        BY <1>4, <1>7, <2>3, <3>1, <3>2
      <4>2. QED
        BY <3>1, <4>1 DEF Lists
    <3>3. CASE i = m
      <4>1. m \in 1 .. n /\ m <= y /\ q[i] = n + 1 /\ <<n + 1, p[m]>> \in R
        BY <1>4, <1>7, <1>10, <3>1, <3>3
      <4>2. CASE m = y
        BY <3>1, <4>1, <4>2
      <4>3. CASE m # y
        <5>1. <<p[m], p[y]>> \in R
          BY <4>1, <4>3 DEF Lists
        <5>2. p[m] \in 1 .. n + 1 /\ p[y] \in 1 .. n + 1 /\ n + 1 \in 1 .. n + 1
          BY <1>0, <4>1
        <5>3. QED
          BY <3>1, <4>1, <5>1, <5>2 DEF Lines
      <4>4. QED
        BY <4>2, <4>3
    <3>4. CASE i > m
      <4>1. PICK x \in 1 .. n : x = i - 1 /\ q[i] = p[x]
        BY <1>7, <3>4
      <4>2. x < y
        BY <1>10, <3>1, <4>1
      <4>3. QED
        BY <3>1, <4>1, <4>2 DEF Lists
    <3>5. QED
      BY <1>4, <3>2, <3>3, <3>4
  <2>4. QED
    BY <1>4, <2>1, <2>2, <2>3
<1>11. QED
  BY <1>8, <1>9, <1>10 DEF Lists

\* What is ordered can be listed.
LEMMA OrdersAreListed == ASSUME NEW N \in Nat, NEW R, Lines(R, N) PROVE \E p : Lists(p, R, N)
<1> DEFINE P == {n \in Nat : n <= N => \E p : Lists(p, R, n)}
<1>1. 0 \in P
  <2>1. PICK p : p = [i \in 1 .. 0 |-> 0]
    OBVIOUS
  <2>2. Lists(p, R, 0)
    BY <2>1 DEF Lists
  <2>3. QED
    BY <2>2
<1>2. ASSUME NEW n \in P PROVE n + 1 \in P
  <2> SUFFICES ASSUME n + 1 <= N PROVE \E p : Lists(p, R, n + 1)
    OBVIOUS
  <2>1. PICK p : Lists(p, R, n)
    OBVIOUS
  <2>2. Lines(R, n + 1)
    BY DEF Lines
  <2>3. QED
    BY <2>1, <2>2, OneMoreListed
<1>3. P = Nat
  <2> HIDE DEF P
  <2>1. P \in SUBSET Nat
    BY DEF P
  <2>2. QED
    BY <1>1, <1>2, <2>1, NaturalsByInduction
<1>4. QED
  BY <1>3

-----------------------------------------------------------------------------
(* What the two sorts return, for sequences that list rounds once each.    *)

\* A sequence of n rounds, none of them twice.
ListsRounds(s, n) ==
  /\ s \in [1 .. n -> ClosedRounds]
  /\ \A i, j \in 1 .. n : s[i] = s[j] => i = j

\* d holds the records of the rounds of s, in the order of an export.
Documents(d, s, n) ==
  /\ d = [i \in 1 .. n |-> d[i]]
  /\ \A i \in 1 .. n : \E x \in 1 .. n : d[i] = normalizeArchiveRecord(s[x])
  /\ \A x \in 1 .. n : \E i \in 1 .. n : d[i] = normalizeArchiveRecord(s[x])
  /\ \A i, j \in 1 .. n : i < j => NewerFirst(d[i], d[j])

\* A record keeps what the filters and the order read.
LEMMA RecordKeeps ==
    ASSUME NEW r \in ClosedRounds
    PROVE  /\ normalizeArchiveRecord(r).id = r.id
           /\ normalizeArchiveRecord(r).ended = r.ended
           /\ normalizeArchiveRecord(r).network = r.network
           /\ r.id \in Nat /\ r.ended \in Nat
BY ArchiveAssumption DEF normalizeArchiveRecord

\* The order that is chosen of those that list the positions.
OrderOf(R, n) == CHOOSE p \in Bijection(1 .. n, 1 .. n) : \A i, j \in 1 .. n : i < j => <<p[i], p[j]>> \in R

LEMMA ChosenOrder ==
    ASSUME NEW n \in Nat, NEW R, Lines(R, n)
    PROVE  /\ Lists(OrderOf(R, n), R, n)
           /\ \A i, j \in 1 .. n : OrderOf(R, n)[i] = OrderOf(R, n)[j] => i = j
<1>1. PICK p : Lists(p, R, n)
  BY OrdersAreListed
<1>2. p \in Bijection(1 .. n, 1 .. n) /\ \A i, j \in 1 .. n : i < j => <<p[i], p[j]>> \in R
  <2>1. p \in [1 .. n -> 1 .. n] /\ \A i, j \in 1 .. n : i < j => <<p[i], p[j]>> \in R
    BY <1>1 DEF Lists
  <2>2. p \in Surjection(1 .. n, 1 .. n)
    BY <1>1, <2>1, Zenon DEF Lists, Surjection
  <2>3. \A i, j \in 1 .. n : p[i] = p[j] => i = j
    <3> SUFFICES ASSUME NEW i \in 1 .. n, NEW j \in 1 .. n, p[i] = p[j], i < j PROVE FALSE
      OBVIOUS
    <3>1. <<p[i], p[i]>> \in R /\ p[i] \in 1 .. n
      BY <2>1
    <3>2. QED
      BY <3>1 DEF Lines
  <2>4. p \in Injection(1 .. n, 1 .. n)
    BY <2>1, <2>3, Zenon DEF Injection, IsInjective
  <2>5. QED
    BY <2>1, <2>2, <2>4, Zenon DEF Bijection
<1>3. PICK c \in Bijection(1 .. n, 1 .. n) : c = OrderOf(R, n) /\ \A i, j \in 1 .. n : i < j => <<c[i], c[j]>> \in R
  BY <1>2, Zenon DEF OrderOf
<1>4. QED
  BY <1>3, Zenon DEF Lists, Bijection, Injection, IsInjective, Surjection

\* By date only, a tie left to the positions.
EndsAhead(s, i, j) == s[i].ended > s[j].ended \/ (~ (s[j].ended > s[i].ended) /\ i < j)

EndsOrder(s) == CHOOSE p \in Bijection(DOMAIN s, DOMAIN s) :
                  \A i, j \in DOMAIN s : i < j => EndsAhead(s, p[i], p[j])

Placed(s, c) == [k \in DOMAIN s |-> s[c[k]]]

\* completedRounds lists the same rounds, each once.
LEMMA CompletedRoundsFit ==
    ASSUME NEW n \in Nat, NEW s, ListsRounds(s, n)
    PROVE  /\ ListsRounds(completedRounds(s), n)
           /\ \A x \in 1 .. n : \E y \in 1 .. n : completedRounds(s)[y] = s[x]
           /\ \A x \in 1 .. n : \E y \in 1 .. n : s[y] = completedRounds(s)[x]
<1>1. \A i \in 1 .. n : s[i] \in ClosedRounds /\ s[i].ended \in Nat
  BY RecordKeeps DEF ListsRounds
<1>2. PICK R : R = {e \in (1 .. n) \X (1 .. n) : EndsAhead(s, e[1], e[2])}
  OBVIOUS
<1>3. \A i, j \in 1 .. n : <<i, j>> \in R <=> EndsAhead(s, i, j)
  BY <1>2
<1>4. Lines(R, n)
  BY <1>1, <1>3 DEF Lines, EndsAhead
<1>5. DOMAIN s = 1 .. n
  BY DEF ListsRounds
<1>6. PICK c : c = EndsOrder(s)
  OBVIOUS
<1>7. completedRounds(s) = Placed(s, c)
  <2>1. completedRounds(s) = Placed(s, EndsOrder(s))
    BY Zenon DEF completedRounds, Sorted, Precedes, Later, EndsAhead, EndsOrder, Placed
  <2>2. QED
    BY <1>6, <2>1
<1>8. c = OrderOf(R, n)
  <2>1. \A p \in Bijection(1 .. n, 1 .. n) : \A i \in 1 .. n : p[i] \in 1 .. n
    BY DEF Bijection, Injection
  <2>3. \A p \in Bijection(1 .. n, 1 .. n) :
          (\A i, j \in 1 .. n : i < j => <<p[i], p[j]>> \in R)
          <=> (\A i, j \in 1 .. n : i < j => EndsAhead(s, p[i], p[j]))
    BY <1>3, <2>1, Zenon
  <2>4. QED
    BY <1>5, <1>6, <2>3, Zenon DEF OrderOf, EndsOrder
<1>9. Lists(c, R, n)
  BY <1>4, <1>8, ChosenOrder
<1>11.  \A i, j \in 1 .. n : c[i] = c[j] => i = j
  BY <1>4, <1>8, ChosenOrder
<1>10. \A i \in 1 .. n : c[i] \in 1 .. n
  BY <1>9 DEF Lists
<1>12. PICK d : d = completedRounds(s)
  OBVIOUS
<1>13. d \in [1 .. n -> ClosedRounds] /\ \A i \in 1 .. n : d[i] = s[c[i]]
  BY <1>1, <1>5, <1>7, <1>10, <1>12 DEF Placed
<1>14. \A i, j \in 1 .. n : d[i] = d[j] => i = j
  BY <1>10, <1>11, <1>13 DEF ListsRounds
<1>15. \A x \in 1 .. n : \E y \in 1 .. n : d[y] = s[x]
  <2> SUFFICES ASSUME NEW x \in 1 .. n PROVE \E y \in 1 .. n : d[y] = s[x]
    OBVIOUS
  <2>1. PICK y \in 1 .. n : c[y] = x
    BY <1>9 DEF Lists
  <2>2. QED
    BY <1>13, <2>1
<1>16. \A x \in 1 .. n : \E y \in 1 .. n : s[y] = d[x]
  BY <1>10, <1>13
<1>17. ListsRounds(d, n)
  BY <1>13, <1>14 DEF ListsRounds
<1>18. QED
  BY <1>12, <1>15, <1>16, <1>17

\* The order of an export, a tie left to the positions.
Ahead(t, i, j) == NewerFirst(t[i], t[j]) \/ (~ NewerFirst(t[j], t[i]) /\ i < j)

AheadOrder(t) == CHOOSE p \in Bijection(DOMAIN t, DOMAIN t) :
                   \A i, j \in DOMAIN t : i < j => Ahead(t, p[i], p[j])

Records(s) == [i \in DOMAIN s |-> normalizeArchiveRecord(s[i])]

\* createArchiveExport holds the record of every round, in its order.
LEMMA ExportDocuments ==
    ASSUME NEW n \in Nat, NEW s, ListsRounds(s, n)
    PROVE  Documents(createArchiveExport(s), s, n)
<1>1. \A i \in 1 .. n : s[i] \in ClosedRounds
  BY DEF ListsRounds
<1>2. PICK t : t = Records(s)
  OBVIOUS
<1>3. DOMAIN s = 1 .. n /\ DOMAIN t = 1 .. n /\ \A i \in 1 .. n : t[i] = normalizeArchiveRecord(s[i])
  BY <1>2 DEF ListsRounds, Records
<1>4. \A i \in 1 .. n : t[i].id = s[i].id /\ t[i].ended = s[i].ended /\ t[i].id \in Nat /\ t[i].ended \in Nat
  BY <1>1, <1>3, RecordKeeps
<1>5. \A i, j \in 1 .. n : i # j => t[i].id # t[j].id
  BY <1>1, <1>4, ArchiveAssumption DEF ListsRounds
<1>6. PICK R : R = {e \in (1 .. n) \X (1 .. n) : Ahead(t, e[1], e[2])}
  OBVIOUS
<1>7. \A i, j \in 1 .. n : <<i, j>> \in R <=> Ahead(t, i, j)
  BY <1>6
<1>8. \A i, j \in 1 .. n : <<i, j>> \in R <=> NewerFirst(t[i], t[j])
  <2>1. \A i, j \in 1 .. n : Ahead(t, i, j)
          <=> NewerFirst(t[i], t[j]) \/ (~ NewerFirst(t[j], t[i]) /\ i < j)
    BY DEF Ahead
  <2>2. \A i, j \in 1 .. n : i < j /\ ~ NewerFirst(t[j], t[i]) => NewerFirst(t[i], t[j])
    BY <1>4, <1>5 DEF NewerFirst
  <2>3. QED
    BY <1>7, <2>1, <2>2
<1>9. Lines(R, n)
  BY <1>4, <1>5, <1>8 DEF Lines, NewerFirst
<1>10. PICK c : c = AheadOrder(t)
  OBVIOUS
<1>11. createArchiveExport(s) = Placed(t, c)
  <2>1. createArchiveExport(s) = Placed(Records(s), AheadOrder(Records(s)))
    BY Zenon DEF createArchiveExport, Sorted, Precedes, Ahead, AheadOrder, Placed, Records
  <2>2. QED
    BY <1>2, <1>10, <2>1
<1>12. c = OrderOf(R, n)
  <2>1. \A p \in Bijection(1 .. n, 1 .. n) : \A i \in 1 .. n : p[i] \in 1 .. n
    BY DEF Bijection, Injection
  <2>2. \A p \in Bijection(1 .. n, 1 .. n) :
          (\A i, j \in 1 .. n : i < j => <<p[i], p[j]>> \in R)
          <=> (\A i, j \in 1 .. n : i < j => Ahead(t, p[i], p[j]))
    BY <1>7, <2>1, Zenon
  <2>3. QED
    BY <1>3, <1>10, <2>2, Zenon DEF OrderOf, AheadOrder
<1>13. Lists(c, R, n)
  BY <1>9, <1>12, ChosenOrder
<1>14. \A i \in 1 .. n : c[i] \in 1 .. n
  BY <1>13 DEF Lists
<1>15. PICK d : d = createArchiveExport(s)
  OBVIOUS
<1>16. d = [i \in 1 .. n |-> d[i]] /\ \A i \in 1 .. n : d[i] = t[c[i]]
  BY <1>3, <1>11, <1>15 DEF Placed
<1>17. \A i \in 1 .. n : \E x \in 1 .. n : d[i] = normalizeArchiveRecord(s[x])
  BY <1>3, <1>14, <1>16
<1>18. \A x \in 1 .. n : \E i \in 1 .. n : d[i] = normalizeArchiveRecord(s[x])
  <2> SUFFICES ASSUME NEW x \in 1 .. n PROVE \E i \in 1 .. n : d[i] = normalizeArchiveRecord(s[x])
    OBVIOUS
  <2>1. PICK i \in 1 .. n : c[i] = x
    BY <1>13 DEF Lists
  <2>2. QED
    BY <1>3, <1>16, <2>1
<1>19. \A i, j \in 1 .. n : i < j => NewerFirst(d[i], d[j])
  <2>1. \A i, j \in 1 .. n : i < j => <<c[i], c[j]>> \in R
    BY <1>13 DEF Lists
  <2>2. QED
    BY <1>8, <1>14, <1>16, <2>1
<1>20. QED
  BY <1>15, <1>16, <1>17, <1>18, <1>19 DEF Documents

\* The order of an export is strict.
LEMMA NewerIsStrict ==
    ASSUME NEW a, NEW b, a.ended \in Nat, b.ended \in Nat, a.id \in Nat, b.id \in Nat, NewerFirst(a, b)
    PROVE  ~ NewerFirst(b, a) /\ a # b
<1>1. ~ NewerFirst(b, a)
  BY DEF NewerFirst
<1>2. QED
  BY <1>1

\* The records of an export are ordered one way only.
LEMMA OneDocument ==
    ASSUME NEW n \in Nat, NEW s, ListsRounds(s, n), NEW u, ListsRounds(u, n),
           \A x \in 1 .. n : \E y \in 1 .. n : u[y] = s[x],
           \A x \in 1 .. n : \E y \in 1 .. n : s[y] = u[x],
           NEW d, Documents(d, s, n), NEW e, Documents(e, u, n)
    PROVE  d = e
<1>1. \A i \in 1 .. n : d[i].id \in Nat /\ d[i].ended \in Nat /\ e[i].id \in Nat /\ e[i].ended \in Nat
  <2> SUFFICES ASSUME NEW i \in 1 .. n
               PROVE  d[i].id \in Nat /\ d[i].ended \in Nat /\ e[i].id \in Nat /\ e[i].ended \in Nat
    OBVIOUS
  <2>1. PICK x \in 1 .. n : d[i] = normalizeArchiveRecord(s[x])
    BY DEF Documents
  <2>2. PICK y \in 1 .. n : e[i] = normalizeArchiveRecord(u[y])
    BY DEF Documents
  <2>3. s[x] \in ClosedRounds /\ u[y] \in ClosedRounds
    BY DEF ListsRounds
  <2>4. QED
    BY <2>1, <2>2, <2>3, RecordKeeps
<1>2. \A i \in 1 .. n : \E y \in 1 .. n : e[y] = d[i]
  <2> SUFFICES ASSUME NEW i \in 1 .. n PROVE \E y \in 1 .. n : e[y] = d[i]
    OBVIOUS
  <2>1. PICK x \in 1 .. n : d[i] = normalizeArchiveRecord(s[x])
    BY DEF Documents
  <2>2. PICK z \in 1 .. n : u[z] = s[x]
    OBVIOUS
  <2>3. PICK y \in 1 .. n : e[y] = normalizeArchiveRecord(u[z])
    BY DEF Documents
  <2>4. QED
    BY <2>1, <2>2, <2>3
<1>3. \A i \in 1 .. n : \E y \in 1 .. n : d[y] = e[i]
  <2> SUFFICES ASSUME NEW i \in 1 .. n PROVE \E y \in 1 .. n : d[y] = e[i]
    OBVIOUS
  <2>1. PICK x \in 1 .. n : e[i] = normalizeArchiveRecord(u[x])
    BY DEF Documents
  <2>2. PICK z \in 1 .. n : s[z] = u[x]
    OBVIOUS
  <2>3. PICK y \in 1 .. n : d[y] = normalizeArchiveRecord(s[z])
    BY DEF Documents
  <2>4. QED
    BY <2>1, <2>2, <2>3
<1>4. /\ \A i, j \in 1 .. n : i < j => NewerFirst(d[i], d[j]) /\ ~ NewerFirst(d[j], d[i]) /\ d[i] # d[j]
      /\ \A i, j \in 1 .. n : i < j => NewerFirst(e[i], e[j]) /\ ~ NewerFirst(e[j], e[i]) /\ e[i] # e[j]
  <2>1. /\ \A i, j \in 1 .. n : i < j => NewerFirst(d[i], d[j])
        /\ \A i, j \in 1 .. n : i < j => NewerFirst(e[i], e[j])
    BY DEF Documents
  <2>2. /\ \A i, j \in 1 .. n : NewerFirst(d[i], d[j]) => ~ NewerFirst(d[j], d[i]) /\ d[i] # d[j]
        /\ \A i, j \in 1 .. n : NewerFirst(e[i], e[j]) => ~ NewerFirst(e[j], e[i]) /\ e[i] # e[j]
    BY <1>1, NewerIsStrict
  <2>3. QED
    BY <2>1, <2>2
<1>5. PICK D : D = {i \in 1 .. n : d[i] # e[i]}
  OBVIOUS
<1>9. D \in SUBSET Nat
  BY <1>5
<1>6. D = {}
  <2> SUFFICES ASSUME D # {} PROVE FALSE
    OBVIOUS
  <2>1. PICK m \in D : \A i \in D : m <= i
    BY <1>9, SmallestMember
  <2>2. m \in 1 .. n /\ d[m] # e[m] /\ \A i \in 1 .. n : i < m => d[i] = e[i]
    BY <1>5, <2>1
  <2>3. PICK y \in 1 .. n : e[y] = d[m]
    BY <1>2, <2>2
  <2>4. PICK z \in 1 .. n : d[z] = e[m]
    BY <1>3, <2>2
  <2>5. ~ (y < m) /\ y # m
    <3>1. y < m => d[y] = e[y] /\ d[y] # d[m]
      BY <1>4, <2>2
    <3>2. QED
      BY <2>2, <2>3, <3>1
  <2>6. ~ (z < m) /\ z # m
    <3>1. z < m => d[z] = e[z] /\ e[z] # e[m]
      BY <1>4, <2>2
    <3>2. QED
      BY <2>2, <2>4, <3>1
  <2>7. NewerFirst(e[m], d[m])
    BY <1>4, <2>2, <2>3, <2>5
  <2>8. ~ NewerFirst(e[m], d[m])
    BY <1>4, <2>2, <2>4, <2>6
  <2>9. QED
    BY <2>7, <2>8
<1>7. \A i \in 1 .. n : d[i] = e[i]
  BY <1>5, <1>6
<1>8. QED
  BY <1>7 DEF Documents

-----------------------------------------------------------------------------
(* The records that a visitor sees.                                        *)

KeptTurn(d, g, i) ==
  IF i = 0 THEN <<>> ELSE IF Within(d[i]) THEN Append(g[i - 1], d[i]) ELSE g[i - 1]

KeptUpTo(g, d, n) == g = [i \in 0 .. n |-> KeptTurn(d, g, i)]

Kept(d) == CHOOSE g : g = [i \in 0 .. Len(d) |-> KeptTurn(d, g, i)]

\* k holds those of the first i records of d that the filters let through.
KeepsOf(k, d, i) ==
  /\ k \in Seq({d[j] : j \in 1 .. i})
  /\ \A a \in 1 .. Len(k) : Within(k[a])
  /\ \A j \in 1 .. i : Within(d[j]) => \E a \in 1 .. Len(k) : k[a] = d[j]
  /\ \A a, b \in 1 .. Len(k) : a < b => NewerFirst(k[a], k[b])

\* The filter is defined on every document.
LEMMA FiltersRun == ASSUME NEW d, NEW n \in Nat PROVE \E g : KeptUpTo(g, d, n)
<1> DEFINE P == {k \in Nat : \E g : KeptUpTo(g, d, k)}
<1>1. 0 \in P
  <2>1. PICK g : g = [i \in 0 .. 0 |-> <<>>]
    OBVIOUS
  <2>2. g = [i \in 0 .. 0 |-> KeptTurn(d, g, i)]
    BY <2>1 DEF KeptTurn
  <2>3. QED
    BY <2>2 DEF KeptUpTo
<1>2. ASSUME NEW k \in P PROVE k + 1 \in P
  <2>1. PICK g : g = [i \in 0 .. k |-> KeptTurn(d, g, i)]
    BY DEF KeptUpTo
  <2>2. PICK h : h = [i \in 0 .. k + 1 |-> KeptTurn(d, g, i)]
    OBVIOUS
  <2>3. \A i \in 0 .. k : i \in 0 .. k + 1 /\ h[i] = g[i]
    BY <2>1, <2>2
  <2>4. ASSUME NEW i \in 0 .. k + 1 PROVE KeptTurn(d, g, i) = KeptTurn(d, h, i)
    <3>1. CASE i = 0
      BY <3>1 DEF KeptTurn
    <3>2. CASE i # 0
      <4>1. PICK j \in 0 .. k : j = i - 1
        BY <3>2
      <4>2. g[j] = h[j]
        BY <2>3
      <4>3. QED
        BY <3>2, <4>1, <4>2 DEF KeptTurn
    <3>3. QED
      BY <3>1, <3>2
  <2>5. h = [i \in 0 .. k + 1 |-> KeptTurn(d, h, i)]
    BY <2>2, <2>4
  <2>6. QED
    BY <2>5 DEF KeptUpTo
<1>3. P = Nat
  <2> HIDE DEF P
  <2>1. P \in SUBSET Nat
    BY DEF P
  <2>2. QED
    BY <1>1, <1>2, <2>1, NaturalsByInduction
<1>4. QED
  BY <1>3

\* One more record is looked at.
LEMMA KeepsOneMore ==
    ASSUME NEW d, NEW i \in Nat, NEW k, KeepsOf(k, d, i),
           \A j \in 1 .. i : NewerFirst(d[j], d[i + 1])
    PROVE  KeepsOf(IF Within(d[i + 1]) THEN Append(k, d[i + 1]) ELSE k, d, i + 1)
<1>1. PICK x : x = d[i + 1]
  OBVIOUS
<1>2. PICK S : S = {d[j] : j \in 1 .. i}
  OBVIOUS
<1>3. PICK T : T = {d[j] : j \in 1 .. i + 1}
  OBVIOUS
<1>4. S \subseteq T /\ x \in T
  <2>1. i + 1 \in 1 .. i + 1 /\ \A j \in 1 .. i : j \in 1 .. i + 1
    OBVIOUS
  <2>2. QED
    BY <1>1, <1>2, <1>3, <2>1
<1>5. k \in Seq(S) /\ k \in Seq(T) /\ Len(k) \in Nat /\ \A a \in 1 .. Len(k) : k[a] \in S
  BY <1>2, <1>4 DEF KeepsOf
<1>6. \A a \in 1 .. Len(k) : NewerFirst(k[a], x)
  BY <1>1, <1>2, <1>5
<1>7. \A j \in 1 .. i + 1 : j \in 1 .. i \/ j = i + 1
  OBVIOUS
<1>8. CASE Within(x)
  <2>1. PICK q : q = Append(k, x)
    OBVIOUS
  <2>2. /\ q \in Seq(T) /\ Len(q) = Len(k) + 1
        /\ \A a \in 1 .. Len(k) : q[a] = k[a]
        /\ q[Len(k) + 1] = x
    BY <1>4, <1>5, <2>1, AppendProperties
  <2>3. PICK l \in Nat : l = Len(k)
    BY <1>5
  <2>4. \A a \in 1 .. l + 1 : a \in 1 .. l \/ a = l + 1
    OBVIOUS
  <2>5. \A a \in 1 .. Len(q) : Within(q[a])
    BY <1>8, <2>2, <2>3, <2>4 DEF KeepsOf
  <2>6. ASSUME NEW j \in 1 .. i + 1, Within(d[j]) PROVE \E a \in 1 .. Len(q) : q[a] = d[j]
    <3>1. CASE j \in 1 .. i
      <4>1. PICK a \in 1 .. l : k[a] = d[j]
        BY <2>3, <2>6, <3>1 DEF KeepsOf
      <4>2. a \in 1 .. l + 1 /\ q[a] = d[j]
        BY <2>2, <2>3, <4>1
      <4>3. QED
        BY <2>2, <2>3, <4>2
    <3>2. CASE j = i + 1
      <4>1. l + 1 \in 1 .. l + 1
        OBVIOUS
      <4>2. QED
        BY <1>1, <2>2, <2>3, <3>2, <4>1
    <3>3. QED
      BY <1>7, <3>1, <3>2
  <2>7. ASSUME NEW a \in 1 .. l + 1, NEW b \in 1 .. l + 1, a < b PROVE NewerFirst(q[a], q[b])
    <3>1. a \in 1 .. l /\ q[a] = k[a]
      BY <2>2, <2>3, <2>7
    <3>2. CASE b \in 1 .. l
      BY <2>2, <2>3, <2>7, <3>1, <3>2 DEF KeepsOf
    <3>3. CASE b = l + 1
      BY <1>6, <2>2, <2>3, <3>1, <3>3
    <3>4. QED
      BY <2>4, <3>2, <3>3
  <2>8. KeepsOf(q, d, i + 1)
    BY <1>3, <2>2, <2>3, <2>5, <2>6, <2>7 DEF KeepsOf
  <2>9. QED
    BY <1>1, <1>8, <2>1, <2>8
<1>9. CASE ~ Within(x)
  <2>1. \A j \in 1 .. i + 1 : Within(d[j]) => j \in 1 .. i
    BY <1>1, <1>7, <1>9
  <2>2. KeepsOf(k, d, i + 1)
    BY <1>3, <1>5, <2>1 DEF KeepsOf
  <2>3. QED
    BY <1>1, <1>9, <2>2
<1>10. QED
  BY <1>8, <1>9

\* What is left of a document is what the filters let through, in its order.
LEMMA FilteredFits ==
    ASSUME NEW n \in Nat, NEW d, d = [i \in 1 .. n |-> d[i]],
           \A i, j \in 1 .. n : i < j => NewerFirst(d[i], d[j]),
           d = exportedDocument
    PROVE  KeepsOf(filteredRecords, d, n)
<1>1. Len(d) = n
  <2>1. d \in Seq({d[i] : i \in 1 .. n}) /\ DOMAIN d = 1 .. n
    OBVIOUS
  <2>2. QED
    BY <2>1
<1>2. PICK g : g = Kept(d)
  OBVIOUS
<1>3. KeptUpTo(g, d, n)
  <2>1. \E h : h = [i \in 0 .. n |-> KeptTurn(d, h, i)]
    <3>1. PICK h : KeptUpTo(h, d, n)
      BY FiltersRun
    <3>2. QED
      BY <3>1, Zenon DEF KeptUpTo
  <2>2. QED
    BY <1>1, <1>2, <2>1, Zenon DEF Kept, KeptUpTo
<1>4. filteredRecords = g[n]
  <2>1. filteredRecords = Kept(exportedDocument)[Len(exportedDocument)]
    BY Zenon DEF filteredRecords, Kept, KeptTurn
  <2>2. QED
    BY <1>1, <1>2, <2>1
<1>5. \A i \in 0 .. n : g[i] = KeptTurn(d, g, i)
  BY <1>3 DEF KeptUpTo
<1> DEFINE P == {i \in Nat : i <= n => KeepsOf(g[i], d, i)}
<1>6. 0 \in P
  <2>1. g[0] = <<>>
    BY <1>5 DEF KeptTurn
  <2>2. KeepsOf(<<>>, d, 0)
    <3>1. <<>> \in Seq({d[j] : j \in 1 .. 0}) /\ Len(<<>>) = 0 /\ 1 .. 0 = {}
      OBVIOUS
    <3>2. QED
      BY ONLY <3>1 DEF KeepsOf
  <2>3. QED
    BY <2>1, <2>2
<1>7. ASSUME NEW i \in P PROVE i + 1 \in P
  <2> SUFFICES ASSUME i + 1 <= n PROVE KeepsOf(g[i + 1], d, i + 1)
    OBVIOUS
  <2>1. i \in Nat /\ i + 1 \in 0 .. n /\ i + 1 # 0 /\ (i + 1) - 1 = i /\ i + 1 \in 1 .. n
    OBVIOUS
  <2>2. g[i + 1] = IF Within(d[i + 1]) THEN Append(g[i], d[i + 1]) ELSE g[i]
    BY <1>5, <2>1 DEF KeptTurn
  <2>3. KeepsOf(g[i], d, i) /\ \A j \in 1 .. i : NewerFirst(d[j], d[i + 1])
    BY <2>1
  <2>4. PICK k : k = g[i]
    OBVIOUS
  <2>5. KeepsOf(IF Within(d[i + 1]) THEN Append(k, d[i + 1]) ELSE k, d, i + 1)
    BY <2>1, <2>3, <2>4, KeepsOneMore
  <2>6. QED
    BY <2>2, <2>4, <2>5
<1>8. P = Nat
  <2> HIDE DEF P
  <2>1. P \in SUBSET Nat
    BY DEF P
  <2>2. QED
    BY <1>6, <1>7, <2>1, NaturalsByInduction
<1>9. QED
  BY <1>4, <1>8

-----------------------------------------------------------------------------
ArchiveHolds ==
  /\ \E n \in Nat : ListsRounds(archive, n)
  /\ visibleCount \in Nat \ {0} /\ fromDate \in Nat /\ toDate \in Nat
  /\ exported = <<>> \/ exported = exportedDocument

\* The archive stays; what was exported is its document.
LEMMA ArchiveStep == ArchiveHolds /\ [ArchiveNext]_archiveVars => ArchiveHolds'
<1> SUFFICES ASSUME ArchiveHolds, [ArchiveNext]_archiveVars PROVE ArchiveHolds'
  OBVIOUS
<1>1. archive' = archive
  BY DEF ArchiveNext, archiveVars, LoadMore, handleExport, SetDates, SetNetwork
<1>2. exportedDocument' = exportedDocument
  BY <1>1 DEF exportedDocument
<1>3. exported' = exported \/ exported' = exportedDocument
  BY DEF ArchiveNext, archiveVars, LoadMore, handleExport, SetDates, SetNetwork
<1>4. visibleCount' \in Nat \ {0} /\ fromDate' \in Nat /\ toDate' \in Nat
  <2>1. visibleCount' \in {visibleCount, PageSize, visibleCount + PageSize}
    BY DEF ArchiveNext, archiveVars, LoadMore, handleExport, SetDates, SetNetwork
  <2>2. fromDate' \in {fromDate} \cup FilterDates \cup {Unset} /\ toDate' \in {toDate} \cup FilterDates \cup {Unset}
    BY DEF ArchiveNext, archiveVars, LoadMore, handleExport, SetDates, SetNetwork
  <2>3. QED
    BY <2>1, <2>2, ArchiveAssumption DEF ArchiveHolds, Unset
<1>5. (\E n \in Nat : ListsRounds(archive, n))'
  BY <1>1 DEF ArchiveHolds
<1>6. (exported = <<>> \/ exported = exportedDocument)'
  BY <1>2, <1>3 DEF ArchiveHolds
<1>7. QED
  BY <1>4, <1>5, <1>6 DEF ArchiveHolds

LEMMA ArchiveStarts == ArchiveInit => ArchiveHolds
<1> SUFFICES ASSUME ArchiveInit PROVE ArchiveHolds
  OBVIOUS
<1>1. PICK R \in SUBSET ClosedRounds :
        archive \in {s \in [1 .. Cardinality(R) -> R] : \A i, j \in DOMAIN s : s[i] = s[j] => i = j}
  BY DEF ArchiveInit
<1>2. PICK n \in Nat : n = Cardinality(R)
  BY ArchiveAssumption, FS_Subset, FS_CardinalityType
<1>3. archive \in [1 .. n -> R] /\ \A i, j \in DOMAIN archive : archive[i] = archive[j] => i = j
  BY <1>1, <1>2
<1>4. ListsRounds(archive, n)
  BY <1>3 DEF ListsRounds
<1>5. QED
  BY <1>4, ArchiveAssumption DEF ArchiveInit, ArchiveHolds, Unset

LEMMA ArchiveAlwaysHolds == ArchiveSpec => []ArchiveHolds
<1>1. QED
  BY ArchiveStarts, ArchiveStep, PTL DEF ArchiveSpec

\* The document of an archive is that of its rounds in any order.
LEMMA AnyOrderExports == ArchiveHolds => ExportIsOrderFree
<1> SUFFICES ASSUME ArchiveHolds, exported # <<>>, NEW p \in Bijection(DOMAIN archive, DOMAIN archive)
             PROVE  createArchiveExport([i \in DOMAIN archive |-> archive[p[i]]]) = exported
  BY DEF ExportIsOrderFree
<1>1. PICK n \in Nat : ListsRounds(archive, n)
  BY DEF ArchiveHolds
<1>2. DOMAIN archive = 1 .. n
  BY <1>1 DEF ListsRounds
<1>3. /\ \A i \in 1 .. n : p[i] \in 1 .. n
      /\ \A i, j \in 1 .. n : p[i] = p[j] => i = j
      /\ \A w \in 1 .. n : \E v \in 1 .. n : p[v] = w
  BY <1>2, Zenon DEF Bijection, Injection, IsInjective, Surjection
<1>4. PICK s : s = [i \in DOMAIN archive |-> archive[p[i]]]
  OBVIOUS
<1>5. ListsRounds(s, n)
  BY <1>1, <1>2, <1>3, <1>4 DEF ListsRounds
<1>6. PICK u : u = completedRounds(archive)
  OBVIOUS
<1>7. ListsRounds(u, n) /\ \A x \in 1 .. n : \E y \in 1 .. n : u[y] = archive[x]
  BY <1>1, <1>6, CompletedRoundsFit
<1>8. \A x \in 1 .. n : \E y \in 1 .. n : archive[y] = u[x]
  BY <1>1, <1>6, CompletedRoundsFit
<1>9. \A x \in 1 .. n : \E y \in 1 .. n : u[y] = s[x]
  BY <1>2, <1>3, <1>4, <1>7
<1>10. \A x \in 1 .. n : \E y \in 1 .. n : s[y] = u[x]
  <2> SUFFICES ASSUME NEW x \in 1 .. n PROVE \E y \in 1 .. n : s[y] = u[x]
    OBVIOUS
  <2>1. PICK z \in 1 .. n : archive[z] = u[x]
    BY <1>8
  <2>2. PICK y \in 1 .. n : p[y] = z
    BY <1>3
  <2>3. QED
    BY <1>2, <1>4, <2>1, <2>2
<1>11. createArchiveExport(s) = createArchiveExport(u)
  <2>1. PICK d : d = createArchiveExport(s)
    OBVIOUS
  <2>2. PICK e : e = createArchiveExport(u)
    OBVIOUS
  <2>3. Documents(d, s, n) /\ Documents(e, u, n)
    BY <1>5, <1>7, <2>1, <2>2, ExportDocuments
  <2>4. d = e
    BY <1>5, <1>7, <1>9, <1>10, <2>3, OneDocument
  <2>5. QED
    BY <2>1, <2>2, <2>4
<1>12. exported = createArchiveExport(u)
  BY <1>6 DEF ArchiveHolds, exportedDocument
<1>13. QED
  BY <1>4, <1>11, <1>12

\* The page shows the first of the records that are left, and these are the
\* newest.
LEMMA NewestAreShown == ArchiveHolds => ShownAreTheNewest
<1> SUFFICES ASSUME ArchiveHolds PROVE ShownAreTheNewest
  OBVIOUS
<1>1. PICK n \in Nat : ListsRounds(archive, n)
  BY DEF ArchiveHolds
<1>2. PICK u : u = completedRounds(archive)
  OBVIOUS
<1>3. /\ ListsRounds(u, n)
      /\ \A x \in 1 .. n : \E y \in 1 .. n : u[y] = archive[x]
      /\ \A x \in 1 .. n : \E y \in 1 .. n : archive[y] = u[x]
  BY <1>1, <1>2, CompletedRoundsFit
<1>4. PICK d : d = exportedDocument
  OBVIOUS
<1>5. Documents(d, u, n)
  BY <1>2, <1>3, <1>4, ExportDocuments DEF exportedDocument
<1>6. PICK k : k = filteredRecords
  OBVIOUS
<1>7. KeepsOf(k, d, n)
  BY <1>4, <1>5, <1>6, FilteredFits DEF Documents
<1>8. PICK l \in Nat : l = Len(k)
  BY <1>7 DEF KeepsOf
<1>9. PICK m \in 0 .. l : m = IF visibleCount < l THEN visibleCount ELSE l
  BY <1>8 DEF ArchiveHolds
<1>10. PICK v : v = visibleRounds
  OBVIOUS
<1>11. DOMAIN v = 1 .. m /\ \A a \in 1 .. m : v[a] = k[a]
  <2>1. v = SubSeq(k, 1, m)
    BY <1>6, <1>8, <1>9, <1>10 DEF visibleRounds
  <2>2. PICK S : S = {d[j] : j \in 1 .. n}
    OBVIOUS
  <2>3. k \in Seq(S) /\ \A a \in 1 .. m : k[a] \in S
    BY <1>7, <1>8, <1>9, <2>2 DEF KeepsOf
  <2>4. v \in Seq(S) /\ Len(v) = m /\ \A a \in 1 .. m : v[a] = k[a]
    BY <1>9, <2>1, <2>3, SubSeqProperties
  <2>5. QED
    BY <2>4
<1>12. PICK rounds : rounds = {archive[i] : i \in DOMAIN archive}
  OBVIOUS
<1>13. /\ rounds \subseteq ClosedRounds
       /\ \A r \in rounds : \E x \in 1 .. n : r = archive[x]
       /\ \A x \in 1 .. n : archive[x] \in rounds
  BY <1>1, <1>12 DEF ListsRounds
<1>14. PICK matching : matching = {r \in {archive[i] : i \in DOMAIN archive} :
                          /\ r.ended >= fromDate /\ (toDate # Unset => r.ended <= toDate)
                          /\ networkFilter # AnyNetwork => r.network = networkFilter}
  OBVIOUS
<1>15. matching = {r \in rounds :
                     /\ r.ended >= fromDate /\ (toDate # Unset => r.ended <= toDate)
                     /\ networkFilter # AnyNetwork => r.network = networkFilter}
  BY <1>12, <1>14
<1>16. PICK onPage : onPage = {visibleRounds[i].id : i \in DOMAIN visibleRounds}
  OBVIOUS
<1>17. onPage = {v[i].id : i \in DOMAIN v}
  BY <1>10, <1>16
<1>18. \A r \in rounds : Within(normalizeArchiveRecord(r)) <=> r \in matching
  <2> SUFFICES ASSUME NEW r \in rounds PROVE Within(normalizeArchiveRecord(r)) <=> r \in matching
    OBVIOUS
  <2>1. r \in ClosedRounds
    BY <1>13
  <2>2. /\ normalizeArchiveRecord(r).ended = r.ended /\ normalizeArchiveRecord(r).network = r.network
        /\ r.ended \in Nat
    BY <2>1, RecordKeeps
  <2>3. Within(normalizeArchiveRecord(r)) <=>
          /\ fromDate = Unset \/ r.ended >= fromDate
          /\ toDate = Unset \/ r.ended <= toDate
          /\ networkFilter \in {AnyNetwork, r.network}
    BY <2>2 DEF Within
  <2>4. (fromDate = Unset \/ r.ended >= fromDate) <=> r.ended >= fromDate
    BY <2>2 DEF Unset, ArchiveHolds
  <2>5. QED
    BY <1>15, <2>3, <2>4
<1>19. \A a \in 1 .. l : \E r \in matching : k[a] = normalizeArchiveRecord(r)
  <2> SUFFICES ASSUME NEW a \in 1 .. l PROVE \E r \in matching : k[a] = normalizeArchiveRecord(r)
    OBVIOUS
  <2>1. PICK j \in 1 .. n : k[a] = d[j]
    <3>1. PICK S : S = {d[j] : j \in 1 .. n}
      OBVIOUS
    <3>2. k \in Seq(S)
      BY <1>7, <3>1 DEF KeepsOf
    <3>3. k[a] \in S
      BY <1>8, <3>2
    <3>4. QED
      BY <3>1, <3>3
  <2>2. Within(k[a])
    BY <1>7, <1>8 DEF KeepsOf
  <2>3. PICK x \in 1 .. n : d[j] = normalizeArchiveRecord(u[x])
    BY <1>5 DEF Documents
  <2>4. PICK y \in 1 .. n : archive[y] = u[x]
    BY <1>3
  <2>5. archive[y] \in rounds /\ k[a] = normalizeArchiveRecord(archive[y])
    BY <1>13, <2>1, <2>3, <2>4
  <2>6. QED
    BY <1>18, <2>2, <2>5
<1>20. \A r \in matching : \E a \in 1 .. l : k[a] = normalizeArchiveRecord(r)
  <2> SUFFICES ASSUME NEW r \in matching PROVE \E a \in 1 .. l : k[a] = normalizeArchiveRecord(r)
    OBVIOUS
  <2>1. r \in rounds /\ Within(normalizeArchiveRecord(r))
    BY <1>15, <1>18
  <2>2. PICK x \in 1 .. n : r = archive[x]
    BY <1>13, <2>1
  <2>3. PICK y \in 1 .. n : u[y] = archive[x]
    BY <1>3
  <2>4. PICK j \in 1 .. n : d[j] = normalizeArchiveRecord(u[y])
    BY <1>5 DEF Documents
  <2>5. PICK a \in 1 .. Len(k) : k[a] = d[j]
    BY <1>7, <2>1, <2>2, <2>3, <2>4 DEF KeepsOf
  <2>6. QED
    BY <1>8, <2>2, <2>3, <2>4, <2>5
<1>21. \A r \in matching : /\ normalizeArchiveRecord(r).id = r.id /\ normalizeArchiveRecord(r).ended = r.ended
                           /\ r.id \in Nat /\ r.ended \in Nat /\ r \in ClosedRounds
  BY <1>13, <1>15, RecordKeeps
<1>22. \A a \in 1 .. m : a \in 1 .. l /\ k[a].id \in onPage
  BY <1>9, <1>11, <1>17
<1>23. \A w \in onPage : \E a \in 1 .. m : w = k[a].id
  BY <1>11, <1>17
<1>24. onPage \subseteq {r.id : r \in matching}
  <2> SUFFICES ASSUME NEW w \in onPage PROVE \E r \in matching : w = r.id
    OBVIOUS
  <2>1. PICK a \in 1 .. m : w = k[a].id
    BY <1>23
  <2>2. PICK r \in matching : k[a] = normalizeArchiveRecord(r)
    BY <1>19, <1>22
  <2>3. QED
    BY <1>21, <2>1, <2>2
<1>25. ~ hasMore => onPage = {r.id : r \in matching}
  <2> SUFFICES ASSUME ~ hasMore, NEW r \in matching PROVE r.id \in onPage
    BY <1>24
  <2>1. m = l
    BY <1>6, <1>8, <1>9 DEF hasMore, ArchiveHolds
  <2>2. PICK a \in 1 .. l : k[a] = normalizeArchiveRecord(r)
    BY <1>20
  <2>3. QED
    BY <1>21, <1>22, <2>1, <2>2
<1>26. ASSUME NEW r \in matching, NEW q \in matching, r.id \in onPage, q.id \notin onPage PROVE q.ended <= r.ended
  <2>1. PICK a \in 1 .. m : r.id = k[a].id
    BY <1>23, <1>26
  <2>2. PICK z \in matching : k[a] = normalizeArchiveRecord(z)
    BY <1>19, <1>22
  <2>3. z = r
    BY <1>21, <2>1, <2>2, ArchiveAssumption
  <2>4. PICK b \in 1 .. l : k[b] = normalizeArchiveRecord(q)
    BY <1>20
  <2>5. ~ (b \in 1 .. m)
    BY <1>21, <1>22, <1>26, <2>4
  <2>6. a < b /\ a \in 1 .. l
    BY <1>9, <2>5
  <2>7. NewerFirst(k[a], k[b])
    BY <1>7, <1>8, <2>6 DEF KeepsOf
  <2>8. k[a].ended = r.ended /\ k[b].ended = q.ended /\ r.ended \in Nat /\ q.ended \in Nat
    BY <1>21, <2>2, <2>3, <2>4
  <2>9. QED
    BY <2>7, <2>8 DEF NewerFirst
<1>27. QED
  <2>1. ShownAreTheNewest <=>
          /\ onPage \subseteq {r.id : r \in matching}
          /\ (~ hasMore => onPage = {r.id : r \in matching})
          /\ \A r, q \in matching : r.id \in onPage /\ q.id \notin onPage => q.ended <= r.ended
    BY <1>14, <1>16, Zenon DEF ShownAreTheNewest
  <2>2. QED
    BY <1>24, <1>25, <1>26, <2>1

-----------------------------------------------------------------------------
\* What the pages show is so, for any alerts, operations, archive, incidents,
\* networks and times: the unread count is of alerts that are listed, progress
\* never runs ahead of the listings, an export does not depend on the order of
\* the archive and the page shows the newest that match, a trouble that lasts is
\* told, a price is of the selected network, and the timers neither freeze nor
\* repeat what they announce.
THEOREM PagesTellWhatIsSo ==
    NoticeSpec /\ OpsSpec /\ ArchiveSpec /\ BannerSpec /\ DialogSpec /\ TimedSpec => []ShownIsSo
<1>1. OpsShape => ProgressNeverEarly /\ ShownRangeIsRunning
  BY DEF OpsShape
<1>2. FeeHolds => PriceOfNetwork
  BY DEF FeeHolds
<1>3. /\ PagesRemembered /\ OpsShape /\ ArchiveHolds /\ BannerHolds /\ FeeHolds
      /\ CountdownHolds /\ BridgeHolds /\ RefreshHolds
      => ShownIsSo
  BY <1>1, <1>2, CountsAreShown, AnyOrderExports, NewestAreShown, LastingTroubleIsTold, TimersAreSo DEF ShownIsSo
<1>4. QED
  BY <1>3, PagesRememberedHold, OpsShapeHolds, ArchiveAlwaysHolds, BannerHoldsAlways, FeesHold, TimersHold, PTL

-----------------------------------------------------------------------------
(* The client as a whole: in the composition one of the machines runs and   *)
(* the others wait.                                                        *)

\* A step of the client is a step of each machine, or leaves it as it is.
LEMMA StepsOfPages ==
    [MCNext]_mcVars =>
      /\ [TxNext]_txVars
      /\ [RetryNext]_retryVars
      /\ [DialogNext]_dialogVars
      /\ [AdminNext]_adminVars
      /\ [PoolNext]_poolVars
      /\ [TabNext]_tabVars
      /\ [NoticeNext]_noticeVars
      /\ [PoolFormNext]_poolFormVars
      /\ [OpsNext]_opsVars
      /\ [DeskNext]_deskVars
      /\ [TimedNext]_timedVars
      /\ [CustomRpcNext]_rpcVars
      /\ [BannerNext]_bannerVars
      /\ [ArchiveNext]_archiveVars
      /\ [ExportNext]_exportVars
      /\ [MirrorNext]_mirrorVars
<1>1. UNCHANGED mcVars =>
        /\ UNCHANGED txVars
        /\ UNCHANGED retryVars
        /\ UNCHANGED dialogVars
        /\ UNCHANGED adminVars
        /\ UNCHANGED poolVars
        /\ UNCHANGED tabVars
        /\ UNCHANGED noticeVars
        /\ UNCHANGED poolFormVars
        /\ UNCHANGED opsVars
        /\ UNCHANGED deskVars
        /\ UNCHANGED timedVars
        /\ UNCHANGED rpcVars
        /\ UNCHANGED bannerVars
        /\ UNCHANGED archiveVars
        /\ UNCHANGED exportVars
        /\ UNCHANGED mirrorVars
  BY DEF mcVars
<1>2. MCNext => Frame
  BY DEF MCNext
<1>3. MCNext => TxNext \/ UNCHANGED txVars
  <2>1. MCNext /\ scenario = "transaction" => TxNext
    BY DEF MCNext
  <2>2. QED
    BY <1>2, <2>1 DEF Frame, Keeps
<1>4. MCNext => RetryNext \/ UNCHANGED retryVars
  <2>1. MCNext /\ scenario = "retries" => RetryNext
    BY DEF MCNext
  <2>2. QED
    BY <1>2, <2>1 DEF Frame, Keeps
<1>5. MCNext => DialogNext \/ UNCHANGED dialogVars
  <2>1. MCNext /\ scenario = "dialogs" => DialogNext
    BY DEF MCNext
  <2>2. QED
    BY <1>2, <2>1 DEF Frame, Keeps
<1>6. MCNext => AdminNext \/ UNCHANGED adminVars
  <2>1. MCNext /\ scenario = "admin" => AdminNext
    BY DEF MCNext
  <2>2. QED
    BY <1>2, <2>1 DEF Frame, Keeps
<1>7. MCNext => PoolNext \/ UNCHANGED poolVars
  <2>1. MCNext /\ scenario = "rpc pools" => PoolNext
    BY DEF MCNext, MCPoolNext
  <2>2. QED
    BY <1>2, <2>1 DEF Frame, Keeps
<1>8. MCNext => TabNext \/ UNCHANGED tabVars
  <2>1. MCNext /\ scenario = "tabs" => TabNext
    BY DEF MCNext, MCTabNext
  <2>2. QED
    BY <1>2, <2>1 DEF Frame, Keeps
<1>9. MCNext => NoticeNext \/ UNCHANGED noticeVars
  <2>1. MCNext /\ scenario = "notifications" => NoticeNext
    BY DEF MCNext
  <2>2. QED
    BY <1>2, <2>1 DEF Frame, Keeps
<1>10. MCNext => PoolFormNext \/ UNCHANGED poolFormVars
  <2>1. MCNext /\ scenario = "pool form" => PoolFormNext
    BY DEF MCNext, MCPoolFormNext
  <2>2. QED
    BY <1>2, <2>1 DEF Frame, Keeps
<1>11. MCNext => OpsNext \/ UNCHANGED opsVars
  <2>1. MCNext /\ scenario = "operations" => OpsNext
    BY DEF MCNext
  <2>2. QED
    BY <1>2, <2>1 DEF Frame, Keeps
<1>12. MCNext => DeskNext \/ UNCHANGED deskVars
  <2>1. MCNext /\ scenario = "support" => DeskNext
    BY DEF MCNext
  <2>2. QED
    BY <1>2, <2>1 DEF Frame, Keeps
<1>13. MCNext => TimedNext \/ UNCHANGED timedVars
  <2>1. MCNext /\ scenario = "timers" => TimedNext
    BY DEF MCNext
  <2>2. QED
    BY <1>2, <2>1 DEF Frame, Keeps
<1>14. MCNext => CustomRpcNext \/ UNCHANGED rpcVars
  <2>1. MCNext /\ scenario = "custom rpc" => CustomRpcNext
    BY DEF MCNext, MCCustomRpcNext
  <2>2. QED
    BY <1>2, <2>1 DEF Frame, Keeps
<1>15. MCNext => BannerNext \/ UNCHANGED bannerVars
  <2>1. MCNext /\ scenario = "banner" => BannerNext
    BY DEF MCNext, MCBannerNext
  <2>2. QED
    BY <1>2, <2>1 DEF Frame, Keeps
<1>16. MCNext => ArchiveNext \/ UNCHANGED archiveVars
  <2>1. MCNext /\ scenario = "archive" => ArchiveNext
    BY DEF MCNext
  <2>2. QED
    BY <1>2, <2>1 DEF Frame, Keeps
<1>17. MCNext => ExportNext \/ UNCHANGED exportVars
  <2>1. MCNext /\ scenario = "activity export" => ExportNext
    BY DEF MCNext
  <2>2. QED
    BY <1>2, <2>1 DEF Frame, Keeps
<1>18. MCNext => MirrorNext \/ UNCHANGED mirrorVars
  <2>1. MCNext /\ scenario = "savings" => MirrorNext
    BY DEF MCNext, MCMirrorNext
  <2>2. QED
    BY <1>2, <2>1 DEF Frame, Keeps
<1>19. QED
  BY <1>1, <1>3, <1>4, <1>5, <1>6, <1>7, <1>8, <1>9, <1>10, <1>11, <1>12, <1>13, <1>14, <1>15,
     <1>16, <1>17, <1>18

\* A behaviour of the client is one of each of its machines.
LEMMA EachPageRuns ==
    MCSpec =>
      /\ TxSpec /\ RetrySpec /\ DialogSpec /\ AdminSpec /\ PoolSpec /\ TabSpec /\ NoticeSpec
      /\ PoolFormSpec /\ OpsSpec /\ DeskSpec /\ TimedSpec /\ CustomRpcSpec /\ BannerSpec
      /\ ArchiveSpec /\ ExportSpec /\ MirrorSpec
<1>1. MCInit =>
      /\ TxInit /\ RetryInit /\ DialogInit /\ AdminInit /\ PoolInit /\ TabInit /\ NoticeInit
      /\ PoolFormInit /\ OpsInit /\ DeskInit /\ TimedInit /\ CustomRpcInit /\ BannerInit
      /\ ArchiveInit /\ ExportInit /\ MirrorInit
  BY DEF MCInit
<1>2. QED
  BY <1>1, StepsOfPages, PTL
  DEF MCSpec, TxSpec, RetrySpec, DialogSpec, AdminSpec, PoolSpec, TabSpec, NoticeSpec, PoolFormSpec,
      OpsSpec, DeskSpec, TimedSpec, CustomRpcSpec, BannerSpec, ArchiveSpec, ExportSpec, MirrorSpec

\* The client as the runs compose it keeps all of these properties, for any
\* constants: its outcomes are real, what it sends was checked, what it shows
\* is so and choices stand.
THEOREM ClientIsSound ==
    MCSpec => [](OutcomesAreReal /\ SentWasChecked /\ ShownIsSo) /\ ChoicesStand
BY EachPageRuns, OutcomesHold, FormsAreChecked, PagesTellWhatIsSo, ChoicesAreKept, PTL
=============================================================================
