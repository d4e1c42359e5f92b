----------------------------- MODULE MCDialogs ------------------------------
(***************************************************************************)
(* Dialogs with two products to edit and two to create, two provider       *)
(* configurations and two settings, and any two of the dialogs.            *)
(***************************************************************************)
EXTENDS Dialogs

CONSTANTS p1, p2, p3, p4, c1, c2, c3, c4, k1, k2, s1, s2

MCProducts == {p1, p2, p3, p4}
MCFirstProducts == {p1, p2}
MCCategories == {c1, c2, c3, c4}
MCFirstCategories == {c1, c2}
MCConfigs == {k1, k2}
MCSettingKeys == {s1, s2}
=============================================================================
