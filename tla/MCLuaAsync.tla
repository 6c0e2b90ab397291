------------------------------ MODULE MCLuaAsync ------------------------------
(* LuaAsync on small instances.                                               *)
EXTENDS LuaAsync, TLC

CONSTANTS p, q, n, g

Request(name, group, replace) == [name |-> name, exclusive |-> group, replace |-> replace]

\* A job that owns a group, and one that takes the group over.
Takeover == {Request(n, g, FALSE), Request(None, g, TRUE)}

\* The callers are interchangeable.
Sym == Permutations(Callers)
=============================================================================
