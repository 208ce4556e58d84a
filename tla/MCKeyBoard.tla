----------------------------- MODULE MCKeyBoard -----------------------------
(* A keyboard of two rows with one key of each kind, for two lines.        *)
EXTENDS KeyBoard

CONSTANTS username, password, x, capital

Kinds == <<"Character", "Backspace", "Mode", "Clear", "<-", "->", "Space", "OK">>

MCKeyKind == [k \in Idx |-> Kinds[k + 1]]
MCCharOf == [k \in Idx |-> [m \in Modes |-> IF m = "Normal" THEN x ELSE capital]]
MCInitText == <<x>>
MCEchoesOf == [l \in Lines |-> l = username]
=============================================================================
