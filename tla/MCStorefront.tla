---------------------------- MODULE MCStorefront ----------------------------
(* Instances of Storefront for TLC. *)
EXTENDS Storefront

CONSTANTS p1, p2, ad1, ad2, ad3

\* The test asks for the last product of two.
TwoListed == <<p2, p1>>
OneGone == {<<p2, p1>>, <<p1>>}

\* Three ads for one category, none for the other.
OneAdvertised == [hair |-> <<ad1, ad2, ad3>>]
TwoCategories == [p \in {p1, p2} |-> IF p = p1 THEN <<"beauty", "hair">> ELSE <<"decor">>]
=============================================================================
