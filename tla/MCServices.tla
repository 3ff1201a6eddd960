----------------------------- MODULE MCServices -----------------------------
(***************************************************************************)
(* Small instances of the services: two files, a Python package with a     *)
(* test, two projects with rows, and three entities with two versions.     *)
(***************************************************************************)
EXTENDS Services

CONSTANTS f, t, p1, p2, r1, r2, c1, q, d, s, x1

MCReports == {{}, {f}}

\* A package with a module, a test and a file with a syntax error; and a tree
\* in which a class inherits from an imported one.
Pkg == <<"pkg">>
ModuleA == <<"pkg", "a">>
TestA == <<"pkg", "test_a">>
Text(imports, classes, functions, sites) ==
    [parses |-> TRUE, imports |-> imports, classes |-> classes,
     functions |-> functions, sites |-> sites]
From(module, name, level) ==
    [module |-> module, name |-> name, alias |-> "", level |-> level]
Class(name, bases, attrs, methods) ==
    [name |-> name, bases |-> bases, attrs |-> attrs, methods |-> methods]
Site(by, kind, name, method) ==
    [by |-> by, kind |-> kind, name |-> name, method |-> method]
TextA == Text({}, {Class("C", {}, <<>>, {"load"})}, {"f"}, {})
TextPkg == Text({From(<<"a">>, "f", 1), From(<<"a">>, "C", 1)},
                {Class("S", {}, [repo |-> "C"], {"run"})}, {"h"},
                {Site(<<"h">>, "name", "f", ""), Site(<<"h">>, "name", "C", ""),
                 Site(<<"h">>, "ctor_method", "C", "load"),
                 Site(<<"h">>, "attr_method", "f", "x"),
                 Site(<<"S", "run">>, "self_method", "repo", "load")})
TextTest == Text({From(ModuleA, "f", 0), From(<<"a">>, "", 1)}, {}, {"test_f"},
                 {Site(<<"test_f">>, "name", "f", "")})
TextHeir == Text({From(ModuleA, "C", 0)}, {Class("H", {<<"C">>}, <<>>, {})}, {}, {})
TextBroken == [TextA EXCEPT !.parses = FALSE]
MCTrees == {(Pkg :> TextPkg) @@ (ModuleA :> TextA) @@ (TestA :> TextTest)
              @@ (<<"b">> :> TextBroken),
            (Pkg :> TextHeir) @@ (ModuleA :> TextA)}
MCPackages == {Pkg}
MCTestModules == {TestA}

\* A requirement of p1 with its parent in p2, a component and a repository.
Canonical(id, label, p, refs, mentions) ==
    [id |-> id, label |-> label, project |-> p, refs |-> refs,
     mentions |-> mentions]
MCRows == {Canonical(CodeRepository, "Repository", p1, {}, {}),
           Canonical(r1, "Requirement", p1, {r2}, {c1}),
           Canonical(r2, "Requirement", p2, {}, {}),
           Canonical(c1, "Component", p1, {CodeRepository}, {})}
MCFirstRows == {row \in MCRows : row.label # "Component"}

\* A requirement, a decision and a symbol, in two versions each.
MCTypeOf == (q :> "Requirement") @@ (d :> "Decision") @@ (s :> "Symbol")
MCTokens == (q :> <<4, 9>>) @@ (d :> <<3, 3>>) @@ (s :> <<5, 1>>)
MCLexical == (q :> <<5, 5>>) @@ (d :> <<5, 0>>) @@ (s :> <<7, 7>>)
MCVector == (q :> <<2, 9>>) @@ (d :> <<3, 0>>) @@ (s :> <<0, 0>>)
MCSymbolScore == (q :> <<0, 0>>) @@ (d :> <<0, 0>>) @@ (s :> <<300, 900>>)
MCPast == <<[id |-> x1, tokens |-> 2, results |-> <<[id |-> x1, tokens |-> 1]>>]>>
Request(known, project, repository, feedback, preferred, max) ==
    [known |-> known, project |-> project, repository |-> repository,
     history |-> project, feedback |-> feedback, preferred |-> preferred,
     max |-> max]
MCRequests == {Request(TRUE, TRUE, TRUE, TRUE, 40, 20),
               Request(TRUE, TRUE, FALSE, FALSE, 20, 12),
               Request(FALSE, FALSE, TRUE, FALSE, 20, 3)}
=============================================================================
