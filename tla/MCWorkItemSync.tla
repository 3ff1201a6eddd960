--------------------------- MODULE MCWorkItemSync ---------------------------
(* WorkItemSync with one package that was bootstrapped and one that is not. *)
EXTENDS WorkItemSync

CONSTANTS old, new

MCPackages == {old, new}
MCByTitle == <<old, new>>
MCHistorical == {old}

MCOnePackage == {old}
MCOneTitle == <<old>>
=============================================================================
