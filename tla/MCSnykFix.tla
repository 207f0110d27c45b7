----------------------------- MODULE MCSnykFix ------------------------------
(* A requirements file, a second one beside it and two in a directory below, *)
(* which may require each other, under other spellings too, and a file that  *)
(* is not there; Pipfile, Poetry and npm projects; two packages, of which    *)
(* one is not written the standard way.                                      *)
EXTENDS SnykFix

CONSTANTS p, Q

MCPkg      == {p, Q}
MCStandard == {p}
MCFile     == {<<"a.txt">>, <<"c.txt">>, <<"sub", "b.txt">>, <<"sub", "c.txt">>}

(* path.normalize, path.join and path.relative.                              *)
Normal(names) ==
  FoldLeft(LAMBDA done, name : CASE name = "." -> done
                                 [] name = ".." /\ done # <<>> /\ Last(done) # ".." -> Front(done)
                                 [] OTHER -> Append(done, name), <<>>, names)
MCJoin(dir, path) == Normal(dir \o path)
MCRelative(dir, path) ==
  LET n == Max({k \in 0..Len(dir) : k <= Len(path) /\ SubSeq(dir, 1, k) = SubSeq(path, 1, k)})
  IN  [i \in 1..Len(dir) - n |-> ".."] \o SubSeq(path, n + 1, Len(path))
MCRank(dir) == Len(dir)

R(path) == [kind |-> "r", path |-> path]
C(path) == [kind |-> "c", path |-> path]
L(name, version) == {[name |-> name, version |-> version]}

Tree(ra, rb, rc, la, lb, lc, ld) ==
  [f \in MCFile |->
     CASE f = <<"a.txt">>        -> [requires |-> ra, lines |-> la]
       [] f = <<"c.txt">>        -> [requires |-> <<R(<<"a.txt">>)>>, lines |-> lc]
       [] f = <<"sub", "b.txt">> -> [requires |-> rb, lines |-> lb]
       [] OTHER                  -> [requires |-> rc, lines |-> ld]]

Simple == Tree(<<>>, <<>>, <<>>, L(p, "old"), {}, {}, {})
(* What a.txt and sub/b.txt require.                                         *)
Requires ==
  {<<>>, <<R(<<"sub", "b.txt">>), C(<<"c.txt">>)>>}
    \X {<<>>, <<R(<<"c.txt">>)>>, <<R(<<"..", "a.txt">>)>>, <<R(<<"gone.txt">>)>>}
  \cup {<<R(<<".", "c.txt">>), R(<<"sub", "b.txt">>)>>, <<R(<<".", "a.txt">>)>>} \X {<<>>, <<R(<<"c.txt">>)>>}
Nested ==
  {Tree(r[1], r[2], rc, la, L(p, "old") \cup L(Q, "old"), lc, L(p, "old")) :
     r \in Requires, rc \in {<<>>, <<R(<<"b.txt">>)>>},
     la \in {L(p, "old"), L(p, "prefix") \cup L(Q, "other")}, lc \in {L(p, "old"), L(Q, "old")}}
MCTrees == <<Nested \cup {Simple}, {Simple}>>

E(type, file, issues, pins) == [type |-> type, file |-> file, issues |-> issues, pins |-> pins]
A(issues, pins) == E("pip", <<"a.txt">>, issues, pins)
B(issues, pins) == E("pip", <<"sub", "b.txt">>, issues, pins)
Npm(issues)     == E("npm", <<"package.json">>, issues, {})
Pipfile == E("pip", <<"Pipfile">>, {p, Q}, {p, Q})
SetupPy == E("pip", <<"setup.py">>, {p}, {p})
Poetry1 == E("poetry", <<"pyproject.toml">>, {p, Q}, {p, Q})
Poetry2 == E("poetry", <<"sub", "poetry.lock">>, {p}, {p})
Poetry3 == E("poetry", <<"new", "pyproject.toml">>, {p}, {})

Requirements2 ==
  {<<b, a>> : a \in {A({p}, {p}), A({p, Q}, {Q}), A({p, Q}, {p, Q})}, b \in {B({p}, {p}), B({p, Q}, {p, Q}), B({p}, {})}}
Mixed ==
  {<<A({p}, {p}), Pipfile>>, <<SetupPy, Pipfile>>, <<A({p}, {p}), Npm({p})>>, <<A({p}, {p}), Poetry1>>, <<Npm({})>>, <<SetupPy>>,
   <<Poetry3, Poetry1, Poetry2>>, <<Poetry2, Npm({})>>, <<Pipfile, Poetry2>>}
MCScan(path, tree) ==
  CASE path = 2      -> {<<A({p}, {p})>>}
    [] tree = Simple -> Mixed
    [] OTHER         -> Requirements2
=============================================================================
