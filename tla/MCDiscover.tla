------------------------------ MODULE MCDiscover -----------------------------
EXTENDS Discover, TLC

CONSTANTS s1, s2, v1, tour, food, etc

MCFound == (s1 :> {food, etc}) @@ (s2 :> {tour, food}) @@ (v1 :> {tour, etc})
MCKind == (tour :> "TOUR") @@ (food :> "RESTAURANT") @@ (etc :> "ETC")
MCLegacyOf == [FOOD |-> "RESTAURANT", CULTURE |-> "TOUR"]

(* No query, a link of the home page to a station that is neither the default
   one nor on the list, and an address without a station *)
Address(p, s, c) == [place |-> p, station |-> s, cat |-> c, area |-> v1]
MCAddresses == {NoAddress, Address(tour, s2, "CULTURE"), Address(tour, NoStation, "CULTURE")}
=============================================================================
