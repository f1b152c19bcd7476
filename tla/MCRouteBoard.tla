---------------------------- MODULE MCRouteBoard ----------------------------
EXTENDS RouteBoard

CONSTANTS s1, s2, s3

MCRoutes == {<<s1>>, <<s1, s2>>, <<s2, s1>>, <<s1, s2, s3>>}
=============================================================================
