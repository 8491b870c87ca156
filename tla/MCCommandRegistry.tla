-------------------------- MODULE MCCommandRegistry -------------------------
(* Programs of up to five declarations: references that share a module, that *)
(* form a cycle, sub-commands below modules without a function, groups with  *)
(* and without one, private options, two options of one string, and common   *)
(* options, which one module declines.                                       *)
EXTENDS CommandRegistry

Mod(by, name, main, refs, opts, perm, glob) ==
    [kind |-> "module", by |-> by, name |-> name, main |-> main, refs |-> refs,
     opts |-> opts, perm |-> perm, glob |-> glob]

Grp(by, name, group, main, refs, opts, perm) ==
    [kind |-> "group", by |-> by, name |-> name, group |-> group, main |-> main,
     refs |-> refs, opts |-> opts, perm |-> perm]

a == <<"a">>
b == <<"b">>
c == <<"c">>
MCDeclarations == {
    Mod("f1", a, TRUE, {}, {"x"}, PUBLIC, TRUE),
    Mod("f2", a, FALSE, {b}, {"y"}, PRIVATE, TRUE),
    Mod("f3", b, FALSE, {a}, {"z"}, PUBLIC, TRUE),
    Mod("f4", c, TRUE, {a, b}, {"u"}, PUBLIC, FALSE),
    Mod("f5", <<"a", "s">>, TRUE, {c}, {"x"}, PRIVATE, TRUE),
    Mod("f6", Root, TRUE, {<<"a", "s">>}, {}, PUBLIC, TRUE),
    Grp("g1", <<"p", "q">>, "fast", TRUE, {b}, {"w"}, PUBLIC),
    Grp("g2", b, "slow", TRUE, {c}, {}, PRIVATE),
    Grp("g3", a, "more", FALSE, {}, {"v"}, PUBLIC),
    Mod("f7", GLOBAL_NAME, TRUE, {}, {"k"}, PUBLIC, TRUE)}

MCOrders == LET o == <<a, b, c, <<"a", "s">>, <<"p", "q">>, Root, GLOBAL_NAME>>
            IN  {o, Reverse(o)}
=============================================================================
