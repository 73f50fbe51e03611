------------------------ MODULE ParameterDefinitions ------------------------
(***************************************************************************)
(* The definitions of parameters, as the writer's and the reader's side    *)
(* both know them: what a registry holds and a block is written for.       *)
(***************************************************************************)

CONSTANTS
  ParamIds,  \* the parameter_ids blocks and definitions may carry
  Shapes     \* the block syntaxes a definition can impose

\* A definition that can be decoded.
Definition == [param : ParamIds, shape : Shapes]
=============================================================================
