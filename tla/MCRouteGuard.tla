---------------------------- MODULE MCRouteGuard ----------------------------
(* Two savers and the guard's loop, two ppp interfaces.                    *)
EXTENDS RouteGuard
CONSTANTS p1, p2, i1, i2
MCSavers == {p1, p2}
MCIfaces == {i1, i2}
MCStored == {[iface |-> i1, block |-> FALSE]}
=============================================================================
