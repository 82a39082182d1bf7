----------------------------- MODULE MCConfigStore -----------------------------
(***************************************************************************)
(* Two platforms and two users, one of them the default user id, both with *)
(* a login on the first platform; two or three commands.                   *)
(***************************************************************************)
EXTENDS ConfigStore, TLC

CONSTANTS p1, p2, u1, u2, c1, c2, c3

Line(kind, p, u) == [kind |-> kind, platform |-> p, user |-> u]

MCCommands ==
  {Line("run", None, None), Line("run", p1, None), Line("runNew", None, None),
   Line("runAs", None, u2), Line("runToken", None, u2),
   Line("python", None, None), Line("pythonAs", None, u2),
   Line("login", p2, u1), Line("switch", p1, u2), Line("use", p1, None),
   Line("set", p2, None), Line("logout", None, None), Line("delete", p1, None),
   Line("forget", None, None)}

MCSymmetry == Permutations({c1, c2, c3})

MCSaved == {<<p1, u1>>, <<p1, u2>>}
=============================================================================
