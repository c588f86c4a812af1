---------------------------- MODULE MCLayoutStore ----------------------------
(* Small documents for LayoutStore: a and b are normalized; old is a cached   *)
(* document hydration must upgrade; bad parses but cannot be normalized.      *)
EXTENDS LayoutStore, TLC

CONSTANTS a, b, old, bad

MCLayouts == {a, b}
MCDocs == {a, b, old, bad}
MCNormalize == a :> a @@ b :> b @@ old :> b @@ bad :> Invalid
MCUpgrade == a :> a @@ b :> b @@ old :> a @@ bad :> Invalid
MCLegacy == {old}

\* For the larger run: b lacks a default tile, which hydration merges back and saves.
MCFewDocs == {a, b}
MCFewNormalize == a :> a @@ b :> b
MCFewUpgrade == a :> a @@ b :> a
MCFewLegacy == {b}
=============================================================================
