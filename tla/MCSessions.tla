----------------------------- MODULE MCSessions -----------------------------
(***************************************************************************)
(* Sessions with an instance TLC checks.                                   *)
(***************************************************************************)
EXTENDS Sessions, TLC

\* Two requests present one token while a login may open another family.
Replays == {"login", "refresh"}
=============================================================================
