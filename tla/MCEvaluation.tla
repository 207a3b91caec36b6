------------------------------ MODULE MCEvaluation ------------------------------
(* Three products in two categories; scenario intents of every kind.       *)
EXTENDS Evaluation, TLC

Product(cat, price, power, wattage, connector, text) ==
    [category |-> cat, price |-> price, power_watts |-> power, wattage |-> wattage,
     connector |-> connector, title |-> "merchant", stock |-> 10,
     description |-> [text |-> text, noted |-> FALSE]]

MerchantOf(ps) == [l \in Location |-> IF l = Shipping THEN TRUE ELSE ps[l[2]][l[1]]]

\* Chargers whose cheapest is too weak, and a hub; and a merchant with both
\* attributes, a missing description and a product that says its connector.
MCMerchants ==
    {MerchantOf(<<Product("charger", 2, 0, 30, {}, "merchant"),
                  Product("charger", 4, 0, 65, {}, "merchant"),
                  Product("hub", 3, 0, 0, {}, "merchant")>>),
     MerchantOf(<<Product("hub", 3, 65, 0, {"USB-C", "HDMI"}, "merchant"),
                  Product("charger", 3, 65, 65, {}, "None"),
                  Product("hub", 2, 0, 0, {}, "merchant")>>)}

Plain == [words |-> {"charger"}, target_budget_paise |-> 3, max_budget_paise |-> 4, eligible |-> TRUE,
          required_categories |-> {"charger"}, forbidden_categories |-> {},
          forbidden_attributes |-> << >>, required_attributes |-> << >>,
          min_attributes |-> << >>, compatibility |-> << >>]

MCIntents ==
    {[Plain EXCEPT !.min_attributes = "wattage" :> 65],
     [Plain EXCEPT !.required_categories = {"charger", "hub"}, !.max_budget_paise = 6,
                   !.words = {"charger", "hub", "product"},
                   !.forbidden_attributes = "connector" :> {{"USB-C", "HDMI"}}],
     [Plain EXCEPT !.required_categories = {"hub"}, !.forbidden_categories = {"charger"},
                   !.words = {"hub", "charger"}, !.eligible = FALSE,
                   !.target_budget_paise = 2, !.max_budget_paise = 2],
     [Plain EXCEPT !.required_categories = {"hub"}, !.compatibility = "connector" :> "USB-C",
                   !.words = {"hub"}]}
=============================================================================
