--------------------------- MODULE AmountsProofs ----------------------------
(***************************************************************************)
(* DriftBounded and WholeCentsExact for amounts of any size.               *)
(***************************************************************************)
EXTENDS PayPhoneAmounts, TLAPS

\* A rounded product is within half a cent of its amount, the product's own
\* error included (payphoneremote.go GeneratePayPhoneConfig).
LEMMA RoundNear ==
    ASSUME NEW x \in Nat, NEW y \in Product(x)
    PROVE  /\ Round(y) \in Int
           /\ 20 * Round(y) - 2 * x \in -10 .. 11
BY DEF Product, Round

\* Before GeneratePayPhoneConfig there is no configuration; after it every field
\* is a rounded product.
FieldsRounded ==
    /\ parts \in Parts
    /\ config.made \in BOOLEAN
    /\ config.made =>
          \E a \in Product(Total(parts)), s \in Product(parts.subtotal),
             t \in Product(parts.taxes), h \in Product(parts.shipping) :
             config = [amount |-> Round(a), amountWithTax |-> Round(s),
                       tax |-> Round(t), service |-> Round(h), made |-> TRUE]

\* GeneratePayPhoneConfig keeps it.
LEMMA FieldsStep == FieldsRounded /\ [Next]_vars => FieldsRounded'
<1> SUFFICES ASSUME FieldsRounded, [Next]_vars PROVE FieldsRounded'
  OBVIOUS
<1>1. CASE GeneratePayPhoneConfig
  <2>1. parts' = parts
    BY <1>1 DEF GeneratePayPhoneConfig
  <2>2. PICK a \in Product(Total(parts)), s \in Product(parts.subtotal),
             t \in Product(parts.taxes), h \in Product(parts.shipping) :
             config' = [amount |-> Round(a), amountWithTax |-> Round(s),
                        tax |-> Round(t), service |-> Round(h), made |-> TRUE]
    BY <1>1 DEF GeneratePayPhoneConfig
  <2>3. config'.made = TRUE
    BY <2>2
  <2> QED
    BY <2>1, <2>2, <2>3, Zenon DEF FieldsRounded
<1>2. CASE UNCHANGED vars
  BY <1>2 DEF FieldsRounded, vars
<1> QED
  BY <1>1, <1>2 DEF Next

\* ... so it holds of every amount.
LEMMA FieldsRoundedHolds == Spec => []FieldsRounded
<1>1. Init => FieldsRounded
  BY DEF Init, FieldsRounded, None
<1> QED
  BY <1>1, FieldsStep, PTL DEF Spec

\* The rounded fields miss the amount by at most two cents.
LEMMA FieldsDrift == FieldsRounded => DriftBounded
<1> SUFFICES ASSUME FieldsRounded, config.made PROVE Drift \in -2 .. 2
  BY DEF DriftBounded
<1>1. /\ parts.subtotal \in Nat /\ parts.taxes \in Nat /\ parts.shipping \in Nat
      /\ Total(parts) \in Nat
  BY PayPhoneAmountsAssumption DEF FieldsRounded, Parts, Total
<1>2. PICK a \in Product(Total(parts)), s \in Product(parts.subtotal),
           t \in Product(parts.taxes), h \in Product(parts.shipping) :
           config = [amount |-> Round(a), amountWithTax |-> Round(s),
                     tax |-> Round(t), service |-> Round(h), made |-> TRUE]
  BY DEF FieldsRounded
<1>3. Drift = Round(a) - (Round(s) + Round(t) + Round(h))
  BY <1>2 DEF Drift
<1>4. /\ Round(a) \in Int /\ 20 * Round(a) - 2 * Total(parts) \in -10 .. 11
      /\ Round(s) \in Int /\ 20 * Round(s) - 2 * parts.subtotal \in -10 .. 11
      /\ Round(t) \in Int /\ 20 * Round(t) - 2 * parts.taxes \in -10 .. 11
      /\ Round(h) \in Int /\ 20 * Round(h) - 2 * parts.shipping \in -10 .. 11
  BY <1>1, RoundNear
<1> HIDE DEF Round, Drift
<1> QED
  BY <1>1, <1>3, <1>4 DEF Total

\* For parts of any size the amount is missed by at most two cents
\* (payphoneremote.go GeneratePayPhoneConfig rounds each amount on its own).
THEOREM DriftIsBounded == Spec => []DriftBounded
BY FieldsDrift, FieldsRoundedHolds, PTL

\* Fields made of whole cents are their parts.
LEMMA FieldsWhole == FieldsRounded => WholeCentsExact
<1> SUFFICES ASSUME FieldsRounded, config.made,
                    parts.subtotal % 10 = 0, parts.taxes % 10 = 0,
                    parts.shipping % 10 = 0
             PROVE  /\ Drift = 0
                    /\ 10 * config.amountWithTax = parts.subtotal
                    /\ 10 * config.tax = parts.taxes
                    /\ 10 * config.service = parts.shipping
  BY DEF WholeCentsExact
<1>1. /\ parts.subtotal \in Nat /\ parts.taxes \in Nat /\ parts.shipping \in Nat
      /\ Total(parts) \in Nat
  BY PayPhoneAmountsAssumption DEF FieldsRounded, Parts, Total
<1>2. PICK a \in Product(Total(parts)), s \in Product(parts.subtotal),
           t \in Product(parts.taxes), h \in Product(parts.shipping) :
           config = [amount |-> Round(a), amountWithTax |-> Round(s),
                     tax |-> Round(t), service |-> Round(h), made |-> TRUE]
  BY DEF FieldsRounded
<1>3. ASSUME NEW x \in Nat, x % 10 = 0, NEW y \in Product(x)
      PROVE  Round(y) \in Int /\ 10 * Round(y) = x
  BY <1>3 DEF Product, Round
<1>4. Total(parts) % 10 = 0
  BY <1>1 DEF Total
<1>5. /\ Round(a) \in Int /\ 10 * Round(a) = Total(parts)
      /\ Round(s) \in Int /\ 10 * Round(s) = parts.subtotal
      /\ Round(t) \in Int /\ 10 * Round(t) = parts.taxes
      /\ Round(h) \in Int /\ 10 * Round(h) = parts.shipping
  BY <1>1, <1>3, <1>4
<1>6. Drift = 0
  <2>1. Drift = Round(a) - (Round(s) + Round(t) + Round(h))
    BY <1>2 DEF Drift
  <2>2. 10 * Round(a) = 10 * Round(s) + 10 * Round(t) + 10 * Round(h)
    BY <1>5 DEF Total
  <2>3. ASSUME NEW A \in Int, NEW S \in Int, NEW T \in Int, NEW H \in Int,
               10 * A = 10 * S + 10 * T + 10 * H
        PROVE  A - (S + T + H) = 0
    BY <2>3
  <2> QED
    BY <1>5, <2>1, <2>2, <2>3
<1> QED
  BY <1>2, <1>5, <1>6

\* Whole cents of any size are carried over exactly and add up
\* (payphoneremote.go GeneratePayPhoneConfig: math.Round against drift).
THEOREM WholeCentsAreExact == Spec => []WholeCentsExact
BY FieldsWhole, FieldsRoundedHolds, PTL
=============================================================================
