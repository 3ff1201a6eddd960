--------------------------- MODULE ImpactAnalysis ---------------------------
(***************************************************************************)
(* application/impact_analysis.py and the code part of                     *)
(* application/jit_retrieval.py: what a change of some symbols touches, as *)
(* queries over the stored code graph.  A file is named by its module and  *)
(* a score is in hundredths.  Only Python files have symbols, so that no   *)
(* related file is a configuration file.                                   *)
(***************************************************************************)
EXTENDS CodeGraph

CONSTANT CoreModules  \* modules named after core, service, domain or model

Capped(n, cap) == IF n < cap THEN n ELSE cap

\* _select_primary: the symbols of that name; without any, the symbols whose
\* name ends in it.
SelectPrimary(v, targets) ==
    UNION {IF FindSymbol(v, target) # {} THEN FindSymbol(v, target)
           ELSE {x.symbol : x \in {y \in StoredSymbols(v) :
                   LET name == y.symbol.qualified
                   IN  name # <<>> /\ <<name[Len(name)]>> = target}} :
             target \in targets}

FilesOf(relations) == {r.source.module : r \in relations}
                        \cup {r.target.module : r \in relations}

\* The files of the symbols, of what they call and of what calls them.
RelatedFiles(v, primary) ==
    {x.module : x \in primary}
      \cup FilesOf({r \in StoredLinks(v) :
             r.type = "CALLS" /\ {r.source, r.target} \cap primary # {}})

\* The related files that a test imports, and every test of the revision.
RelatedTests(v, files) ==
    {r.target.module : r \in {x \in StoredLinks(v) :
                                x.type = "TESTS" /\ x.target.module \in files}}
      \cup ({x.symbol.module : x \in StoredSymbols(v)} \cap TestModules)

\* _risk_score counts the calls made by the symbols, of every build.
RiskScore(v, primary, files) ==
    LET calls == {x \in codeLinks : /\ x.revision = v
                                    /\ x.link.type = "CALLS"
                                    /\ x.link.source \in primary}
    IN  IF primary = {} THEN 0
        ELSE Capped(10 * Cardinality(calls), 40)
               + Capped(5 * Cardinality(files), 30)
               + (IF {x.module : x \in primary} \cap CoreModules # {} THEN 15
                  ELSE 0)

AnalyzeImpact(v, targets) ==
    LET primary == SelectPrimary(v, targets)
        files == RelatedFiles(v, primary)
    IN  [primary |-> primary, files |-> files,
         tests |-> RelatedTests(v, files),
         risk |-> RiskScore(v, primary, files)]

\* JustInTimeRetrieval: every relation of the symbol, by name.
FindRelatedFiles(v, name) ==
    IF FindSymbol(v, name) = {} THEN {}
    ELSE FilesOf({r \in StoredLinks(v) :
                    name \in {r.source.qualified, r.target.qualified}})
FindRelatedTests(v, name) == FindRelatedFiles(v, name) \cap TestModules
=============================================================================
