------------------------------- MODULE MCBoot -------------------------------
(* Model-checking instance of Boot: memory maps with tags of odd sizes,     *)
(* entries of two sizes, several map tags and too many entries; archives    *)
(* whose names and files have every length modulo 4.                        *)
EXTENDS Boot

E(b, l, t) == [base |-> b, length |-> l, type |-> t]

Mmap(s, es) == [type |-> 6, esize |-> s, entries |-> es]

Other(n) == [type |-> 4, size |-> n]

End == [type |-> 0, size |-> 8]

Tags1 == <<Other(12), Mmap(24, <<E(0, 2, 1), E(2, 1, 2), E(3, 5, 1)>>), Other(9), End>>

Maps == {Tags1,
         <<Mmap(24, <<E(0, 1, 1)>>), Other(13), Mmap(32, <<E(1, 1, 3), E(2, 6, 1), E(8, 9, 4)>>), End>>,
         <<Mmap(40, <<E(0, 1, 1), E(1, 1, 4), E(2, 1, 2), E(3, 9, 1)>>), End>>,
         <<Other(8), End, Mmap(24, <<E(0, 9, 1)>>)>>,
         <<Other(11)>>}

P(cs) == PathOf([k \in DOMAIN cs |-> <<cs[k]>>])

F(name, n) == [name |-> name, data |-> [k \in 1..n |-> 10 * Len(name) + k]]

Files1 == <<F(InitPath, 5), F(P(<<"a", "b", "n">>), 3), F(<<"/", "a", "b", "/", "s">>, 2)>>

Archives == {Files1, << >>,
             <<F(InitPath, 0)>>,
             <<F(<<"/", "i", "i">>, 1), F(InitPath, 4)>>,
             <<F(P(<<"a", "b", "a", "b", "a">>), 7), F(<<"/", "i", "a", "a">>, 6), F(InitPath, 8)>>,
             <<F(P(<<"i", "a">>), 1)>>,
             <<F(P(<<"a">>), 1), F(P(<<"a", "b">>), 2), F(InitPath, 3)>>}

MCInputs == {[tags |-> t, files |-> Files1] : t \in Maps}
              \cup {[tags |-> Tags1, files |-> f] : f \in Archives}

MCMountPoints == {Root, P(<<"a">>), P(<<"a", "b">>), <<"/", "a", "b">>}

MCExtra == {parse(build_initramfs(fs)) : fs \in {<<F(P(<<"b", "n">>), 1)>>, <<F(P(<<"b">>), 2)>>}}

MCPaths ==
  {<< >>, Root, <<"/", "/">>, InitPath, <<"i">>, <<"i", "/">>, <<"/", "/", "i">>}
    \cup {P(cs) : cs \in [1..2 -> {"a", "b", "n"}] \cup [1..3 -> {"a", "b", "n"}]}
    \cup {P(<<"a">>), <<"/", "a", "b">>, <<"/", "a", "b", "/", "s">>, <<"a", "/", "/", "b", "/", "n", "/">>}
=============================================================================
