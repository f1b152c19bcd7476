------------------------------- MODULE MapPage -------------------------------
(***************************************************************************)
(* What the two parts of the map page (frontend/app/discover/page.tsx)     *)
(* have in common: the search, which is Discover's, and the subway route   *)
(* with its schedule, which is RouteBoard's.                               *)
(***************************************************************************)
CONSTANT Stations      \* the stations there are

VARIABLE known         \* stations: those the page has loaded
=============================================================================
