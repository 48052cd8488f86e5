----------------------------- MODULE X86Decode ------------------------------
(***************************************************************************)
(* The two users of the x86 decoder side by side.  A behaviour has one     *)
(* subject: a caller of cdisasm_x86_decode that receives an instruction    *)
(* byte by byte, or the owner of a decode context.                         *)
(***************************************************************************)
EXTENDS X86Pipeline, X86Contexts

VARIABLE subject

\* Where the context is the subject the caller does not matter, and waits.
SubjectInit ==
  /\ Init /\ ContextInit
  /\ \/ subject = "bytes"
     \/ subject = "context" /\ caller = CHOOSE c \in Callers : TRUE

SubjectNext ==
  \/ subject = "bytes" /\ Next /\ UNCHANGED <<contextVars, subject>>
  \/ subject = "context" /\ ContextNext /\ UNCHANGED <<vars, subject>>

SubjectSpec == SubjectInit /\ [][SubjectNext]_<<vars, contextVars, subject>>

\* The types of both.
BothTypeOK == TypeOK /\ ContextTypeOK

=============================================================================
