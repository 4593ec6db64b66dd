---------------------------- MODULE MCPublicPage ----------------------------
(* Instances of PublicPage for TLC. *)
EXTENDS PublicPage, TLC

\* Each service has an employee of its own.
CONSTANTS ana, bia, cut, dye
MCPerforms == {<<ana, cut>>, <<bia, dye>>}

C(p, e, s, h) == [production |-> p, enabled |-> e, secret |-> s, hostnames |-> h]

\* Development without the widget; production as it should be, and misconfigured.
MCConfigs == {C(FALSE, FALSE, "none", "none"), C(TRUE, TRUE, "real", "page"), 
              C(TRUE, FALSE, "test", "page")}
=============================================================================
