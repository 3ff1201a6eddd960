------------------------------ MODULE CodeGraph ------------------------------
(***************************************************************************)
(* application/code_intelligence.py and adapters/code_intelligence: parse  *)
(* the Python files of a revision, resolve the symbols across files, and   *)
(* store symbols and relations.  A dotted name is a sequence of names, a   *)
(* module is the sequence of its path, and a file is what its text says:   *)
(* its imports, classes, functions and call sites.  A name is declared     *)
(* once in a module, and a class after its local bases.                    *)
(***************************************************************************)
EXTENDS Naturals, Sequences, FiniteSets, TLC

CONSTANTS
    Trees,        \* file trees: functions from modules to texts
    Packages,     \* modules whose path is an __init__.py
    TestModules,  \* modules whose path is a test path
    Revisions,
    CodeStores,   \* adapters of CodeGraphRepository: "postgres", "memory"
    MaxBuilds     \* bound on builds

ASSUME CodeAssumption ==
    MaxBuilds \in Nat /\ CodeStores \subseteq {"postgres", "memory"}

-----------------------------------------------------------------------------
(* python_ast.py: the symbols and the relations inside one file.            *)

Declare(m, name, kind) == [module |-> m, qualified |-> m \o name, kind |-> kind]
ModuleSymbol(m) == Declare(m, <<>>, "module")

\* The name an import binds: its alias, its name, or the end of its module.
Binds(i) == IF i.alias # "" THEN i.alias
            ELSE IF i.name # "" THEN i.name
            ELSE i.module[Len(i.module)]

FileSymbols(m, text) ==
    {ModuleSymbol(m)}
      \cup {Declare(m, <<Binds(i)>>, "import") : i \in text.imports}
      \cup {Declare(m, <<c.name>>, "class") : c \in text.classes}
      \cup {Declare(m, <<f>>, "function") : f \in text.functions}
      \cup UNION {{Declare(m, <<c.name, f>>, "method") : f \in c.methods} :
                    c \in text.classes}

ByQualified(m, text, name) ==
    {x \in FileSymbols(m, text) : x.qualified = m \o name}

Link(type, source, target) ==
    [type |-> type, source |-> source, target |-> target]
Links(type, sources, targets) ==
    {Link(type, x, y) : x \in sources, y \in targets}

\* The function or method whose body holds a call site.
Caller(m, text, site) ==
    {x \in ByQualified(m, text, site.by) : x.kind \in {"function", "method"}}

\* _attr_name: a constructor call is no name, so of C().load only "load" is
\* left; self.repo.get is the whole chain.
SiteName(site) ==
    CASE site.kind = "name" -> <<site.name>>
      [] site.kind = "attr_method" -> <<site.name, site.method>>
      [] site.kind = "ctor_method" -> <<site.method>>
      [] site.kind = "self_method" -> <<"self", site.name, site.method>>

LocalRelations(m, text) ==
    Links("IMPORTS", {ModuleSymbol(m)},
          {x \in FileSymbols(m, text) : x.kind = "import"})
      \cup (UNION {Links("INHERITS", {Declare(m, <<c.name>>, "class")},
                         UNION {ByQualified(m, text, base) : base \in c.bases}) :
                     c \in text.classes})
      \cup (UNION {Links("CALLS", Caller(m, text, site),
                         ByQualified(m, text, SiteName(site))) :
                     site \in text.sites})
      \cup (UNION {Links("INSTANTIATES", Caller(m, text, site),
                         {x \in ByQualified(m, text, <<site.name>>) :
                            x.kind = "class"}) :
                     site \in {s \in text.sites : s.kind = "name"}})

-----------------------------------------------------------------------------
(* _GraphResolver: names across the parsed files.                           *)

\* Files that are not Python or have a syntax error are skipped.
Parsed(tree) == {m \in DOMAIN tree : tree[m].parses}
TreeSymbols(tree) == UNION {FileSymbols(m, tree[m]) : m \in Parsed(tree)}

\* _resolve_module: a relative import climbs "level" packages.
Container(m) == IF m \in Packages THEN m ELSE SubSeq(m, 1, Len(m) - 1)
Climbed(s, n) == IF n >= Len(s) THEN <<>> ELSE SubSeq(s, 1, Len(s) - n)
ResolveModule(tree, m, i) ==
    Parsed(tree) \cap
      {IF i.level = 0 THEN i.module
       ELSE Climbed(Container(m), i.level - 1) \o i.module}

\* _local_names: the names imported from parsed modules.
LocalNames(tree, m) ==
    UNION {{[name |-> Binds(i), module |-> target, of |-> i.name] :
              target \in ResolveModule(tree, m, i)} :
             i \in {x \in tree[m].imports : x.name # ""}}

ByModuleSymbol(tree, m, name) ==
    {x \in FileSymbols(m, tree[m]) :
       x.qualified = m \o <<name>> /\ x.kind \in {"class", "function"}}

ResolveImportedName(tree, m, name) ==
    UNION {LET named == ByModuleSymbol(tree, n.module, n.of)
           IN  IF named # {} THEN named ELSE {ModuleSymbol(n.module)} :
             n \in {x \in LocalNames(tree, m) : x.name = name}}

\* _find_method searches every parsed file.
FindMethod(tree, classes, method) ==
    {x \in TreeSymbols(tree) :
       /\ x.kind = "method"
       /\ \E c \in classes : /\ c.kind = "class"
                             /\ x.qualified = c.qualified \o <<method>>}

\* _instance_attrs of the class that encloses the caller.
AttributeClass(tree, m, site) ==
    UNION {LET imported == ResolveImportedName(tree, m, c.attrs[site.name])
           IN  IF imported # {} THEN imported
               ELSE ByModuleSymbol(tree, m, c.attrs[site.name]) :
             c \in {x \in tree[m].classes : /\ Len(m \o site.by) >= 3
                                            /\ Len(site.by) = 2
                                            /\ x.name = site.by[1]
                                            /\ site.name \in DOMAIN x.attrs}}

ResolveCallSite(tree, m, site) ==
    CASE site.kind \in {"name", "attr_method"} ->
           ResolveImportedName(tree, m, site.name)
      [] site.kind = "ctor_method" ->
           FindMethod(tree, ResolveImportedName(tree, m, site.name), site.method)
      [] site.kind = "self_method" ->
           FindMethod(tree, AttributeClass(tree, m, site), site.method)

CallRelations(tree, m) ==
    UNION {UNION {Links(IF site.kind = "name" /\ target.kind = "class"
                        THEN "INSTANTIATES" ELSE "CALLS",
                        Caller(m, tree[m], site), {target}) :
                    target \in ResolveCallSite(tree, m, site)} :
             site \in tree[m].sites}

ImportRelations(tree, m) ==
    Links("IMPORTS", {ModuleSymbol(m)},
          UNION {{ModuleSymbol(target) : target \in ResolveModule(tree, m, i)} :
                   i \in tree[m].imports})

TestRelations(tree, m) ==
    IF m \in TestModules
    THEN Links("TESTS", {ModuleSymbol(m)},
               {ModuleSymbol(n.module) : n \in LocalNames(tree, m)})
    ELSE {}

\* _resolve_inheritance hands a module name to _module_symbol, which expects a
\* parsed file: a base class imported from a parsed module raises.
ResolverRaises(tree) ==
    \E m \in Parsed(tree) : \E c \in tree[m].classes : \E base \in c.bases :
        base[1] \in {n.name : n \in LocalNames(tree, m)}

\* _add_relation of the resolver drops a relation from a symbol to itself.
ResolvedRelations(tree) ==
    UNION {LocalRelations(m, tree[m])
             \cup {r \in ImportRelations(tree, m) \cup CallRelations(tree, m)
                           \cup TestRelations(tree, m) : r.source # r.target} :
             m \in Parsed(tree)}

\* Modules have names, imports climb a number of packages, and a tree has
\* finitely many symbols and relations.
ASSUME TreeAssumption ==
    \A tree \in Trees :
        /\ \A m \in DOMAIN tree : /\ m \in Seq(STRING) \ {<<>>}
                                 /\ \A i \in tree[m].imports : i.level \in Nat
        /\ IsFiniteSet(TreeSymbols(tree)) /\ IsFiniteSet(ResolvedRelations(tree))

-----------------------------------------------------------------------------
(* build_revision and the CodeGraphRepository.                              *)

VARIABLES
    codeStore,   \* the adapter in use
    symbols,     \* stored symbols, each with the build that made its id
    codeLinks,   \* stored relations
    codeFiles,   \* stored files of a revision
    built,       \* history: the trees whose facts a revision holds
    builds       \* history: number of builds

codeVars == <<codeStore, symbols, codeLinks, codeFiles, built, builds>>

CodeTypeOK ==
    /\ codeStore \in CodeStores
    /\ \A x \in symbols : x.revision \in Revisions /\ x.build \in 1..builds
    /\ \A r \in codeLinks : r.revision \in Revisions /\ r.build \in 1..builds
    /\ \A x \in codeFiles : x.revision \in Revisions
    /\ built \in [Revisions -> SUBSET Trees]
    /\ builds \in 0..MaxBuilds

CodeInit ==
    /\ codeStore \in CodeStores
    /\ symbols = {} /\ codeLinks = {} /\ codeFiles = {}
    /\ built = [v \in Revisions |-> {}]
    /\ builds = 0

Expired(facts, v) == {x \in facts : x.revision # v}

\* PostgreSQL keys a symbol by its id, new in every build; the dictionary in
\* memory by its identity.
SaveSymbols(old, new) ==
    IF codeStore = "postgres" THEN old \cup new
    ELSE {x \in old : \A y \in new : \/ x.revision # y.revision
                                      \/ x.symbol # y.symbol} \cup new

NewSymbols(v, tree) ==
    {[revision |-> v, symbol |-> x, build |-> builds + 1] : x \in TreeSymbols(tree)}
NewLinks(v, tree) ==
    {[revision |-> v, link |-> r, build |-> builds + 1] :
       r \in ResolvedRelations(tree)}

BuildRevision(v, tree, replace) ==
    LET old(facts) == IF replace THEN Expired(facts, v) ELSE facts
    IN  /\ builds < MaxBuilds
        /\ ~ResolverRaises(tree)
        /\ symbols' = SaveSymbols(old(symbols), NewSymbols(v, tree))
        /\ codeLinks' = old(codeLinks) \cup NewLinks(v, tree)
        /\ codeFiles' = old(codeFiles) \cup
                          {[revision |-> v, module |-> m] : m \in Parsed(tree)}
        /\ built' = [built EXCEPT ![v] = {tree} \cup IF replace THEN {} ELSE @]
        /\ builds' = builds + 1
        /\ UNCHANGED codeStore

\* The expired facts of the revision are gone and nothing replaces them.
BuildRaises(v, tree, replace) ==
    LET old(facts) == IF replace THEN Expired(facts, v) ELSE facts
    IN  /\ builds < MaxBuilds
        /\ ResolverRaises(tree)
        /\ symbols' = old(symbols)
        /\ codeLinks' = old(codeLinks)
        /\ codeFiles' = old(codeFiles)
        /\ built' = IF replace THEN [built EXCEPT ![v] = {}] ELSE built
        /\ builds' = builds + 1
        /\ UNCHANGED codeStore

CodeNext ==
    \E v \in Revisions, tree \in Trees, replace \in BOOLEAN :
        BuildRevision(v, tree, replace) \/ BuildRaises(v, tree, replace)

\* what_calls and what_is_called_by.
StoredSymbols(v) == {x \in symbols : x.revision = v}
StoredLinks(v) == {r.link : r \in {x \in codeLinks : x.revision = v}}
FindSymbol(v, name) ==
    {x.symbol : x \in {y \in StoredSymbols(v) : y.symbol.qualified = name}}
WhatCalls(v, name) ==
    {r \in StoredLinks(v) : r.type = "CALLS" /\ r.target \in FindSymbol(v, name)}
WhatIsCalledBy(v, name) ==
    {r \in StoredLinks(v) : r.type = "CALLS" /\ r.source \in FindSymbol(v, name)}
=============================================================================
