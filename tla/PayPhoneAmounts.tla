-------------------------- MODULE PayPhoneAmounts ---------------------------
(***************************************************************************)
(* The amounts of the payment widget's configuration.  Subtotal, taxes,    *)
(* shipping and total come as floating-point numbers; each is multiplied   *)
(* by 100 and rounded on its own.  PayPhone wants whole cents, in which    *)
(* the parts should make up the amount.  Amounts are modelled in mills     *)
(* (tenths of a cent); a floating-point product is the exact one or off by *)
(* less than a mill, so products are counted in half mills.                *)
(***************************************************************************)
EXTENDS Integers

CONSTANT MaxAmount   \* bound: mills of a part

ASSUME PayPhoneAmountsAssumption == MaxAmount \in Nat

VARIABLES
    parts,    \* [subtotal, taxes, shipping], in mills
    config    \* [amount, amountWithTax, tax, service] in cents, or None yet

vars == <<parts, config>>

Parts == [subtotal : 0 .. MaxAmount, taxes : 0 .. MaxAmount, shipping : 0 .. MaxAmount]
None == [amount |-> 0, amountWithTax |-> 0, tax |-> 0, service |-> 0, made |-> FALSE]

-----------------------------------------------------------------------------
\* What x * 100 may be, in twentieths of a cent: 0 stays 0.
Product(x) == IF x = 0 THEN {0} ELSE 2 * x - 1 .. 2 * x + 1

\* int(math.Round(...)).  The variant truncates.
RoundDown(y) == y \div 20

Round(y) == (y + 10) \div 20

\* The total the baskets service reports is the sum of the parts.
Total(p) == p.subtotal + p.taxes + p.shipping

\* GeneratePayPhoneConfig.  The variant leaves the shipping out of the amount.
GenerateConfigUnshipped ==
    /\ ~config.made
    /\ \E a \in Product(parts.subtotal + parts.taxes), s \in Product(parts.subtotal),
          t \in Product(parts.taxes), h \in Product(parts.shipping) :
          config' = [amount |-> Round(a), amountWithTax |-> Round(s),
                     tax |-> Round(t), service |-> Round(h), made |-> TRUE]
    /\ UNCHANGED parts

GeneratePayPhoneConfig ==
    /\ ~config.made
    /\ \E a \in Product(Total(parts)), s \in Product(parts.subtotal),
          t \in Product(parts.taxes), h \in Product(parts.shipping) :
          config' = [amount |-> Round(a), amountWithTax |-> Round(s),
                     tax |-> Round(t), service |-> Round(h), made |-> TRUE]
    /\ UNCHANGED parts

Init == parts \in Parts /\ config = None

Next == GeneratePayPhoneConfig

Spec == Init /\ [][Next]_vars

-----------------------------------------------------------------------------
Drift == config.amount - (config.amountWithTax + config.tax + config.service)

\* Rounding one by one, the parts miss the amount by at most two cents
\* (payphoneremote.go GeneratePayPhoneConfig).
DriftBounded == config.made => Drift \in -2 .. 2

\* Where the parts are whole cents nothing is lost, whatever the floating-point
\* products were: each field is its part and they add up ("converted to cents
\* with math.Round to avoid floating-point drift").
WholeCentsExact ==
    /\ config.made
    /\ \A f \in {"subtotal", "taxes", "shipping"} : parts[f] % 10 = 0
    => /\ Drift = 0
       /\ 10 * config.amountWithTax = parts.subtotal
       /\ 10 * config.tax = parts.taxes
       /\ 10 * config.service = parts.shipping
=============================================================================
