------------------------------- MODULE Policy -------------------------------
(***************************************************************************)
(* The spending rules of a campaign (core/policy.py), as operators.        *)
(*                                                                         *)
(* A quote has items, each with a unit price and a quantity, and declares  *)
(* a total.  The terms of a campaign limit, per vendor category, the unit  *)
(* price and the total released; if the organiser allows it the limits     *)
(* grow with the share by which the goal was exceeded.  A limit that is    *)
(* absent is NoLimit.                                                      *)
(***************************************************************************)
EXTENDS Sums

CONSTANT NoLimit

ASSUME PolicyAssumption == NoLimit \notin Nat

(* items_total *)
ItemsTotal(items) ==
  SumOver([k \in DOMAIN items |-> items[k].unit_price * items[k].quantity], DOMAIN items)

(* check_declared_total *)
Declared(items, total) == total = ItemsTotal(items)

(* _scaled *)
Scaled(limit, terms, goal, raised) ==
  IF terms.allowSurplusScaling /\ goal > 0 /\ raised > goal
  THEN (limit * raised) \div goal
  ELSE limit

(* limits = categories.get(category) or {} *)
MaxUnitPrice(terms, category) ==
  IF category \in DOMAIN terms.categories THEN terms.categories[category].maxUnitPrice
  ELSE NoLimit

(* The category's own total, else the total common to all categories. *)
MaxTotal(terms, category) ==
  IF /\ category \in DOMAIN terms.categories
     /\ terms.categories[category].maxTotal # NoLimit
  THEN terms.categories[category].maxTotal
  ELSE terms.maxPerCategory

(* A policy that names categories admits only those and the campaign's own. *)
Foreign(terms, home, category) ==
  /\ DOMAIN terms.categories # {}
  /\ category # home /\ category \notin DOMAIN terms.categories

(* violations: the rules broken by releasing a quote to a vendor of the    *)
(* category after `spent` was released in it; campaign is a record of its  *)
(* category, goal and raised amount.                                       *)
Violations(terms, campaign, category, quote, spent) ==
  LET cap(limit) == Scaled(limit, terms, campaign.goal, campaign.raised)
      foreign == Foreign(terms, campaign.category, category)
      unit    == MaxUnitPrice(terms, category)
      total   == MaxTotal(terms, category)
      broken  == [undeclared |-> ~Declared(quote.items, quote.amount),
                  category   |-> foreign,
                  unitPrice  |-> /\ ~foreign /\ unit # NoLimit
                                 /\ \E k \in DOMAIN quote.items :
                                      quote.items[k].unit_price > cap(unit),
                  sumTotal   |-> ~foreign /\ total # NoLimit /\ spent + quote.amount > cap(total)]
  IN  {rule \in DOMAIN broken : broken[rule]}
=============================================================================
