----------------------------- MODULE MCStarlink -----------------------------
\* A small instance of Starlink: two ticks to a minute, two minutes to an hour,
\* and a week that ends with the second hour.
EXTENDS Starlink

Dish(api, web, bad, rate) == [api |-> api, web |-> web, outage |-> bad, alert |-> bad, rate |-> rate]

MCDishStates == {Dish(TRUE, FALSE, FALSE, 1), Dish(TRUE, FALSE, TRUE, 0), Dish(FALSE, TRUE, FALSE, 0)}
=============================================================================
