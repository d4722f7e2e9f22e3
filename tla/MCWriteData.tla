---------------------------- MODULE MCWriteData ----------------------------
(***************************************************************************)
(* The driver's orders of commands, with the feature words of the two      *)
(* timing modes and pages of one to four words.                            *)
(***************************************************************************)
EXTENDS WriteData

CONSTANTS z, m4, m5, p, q

SetTo(mode) == <<[op |-> "set_feature", word |-> <<<<mode, z>>, <<z, z>>>>], [op |-> "SetFeature"]>>
Program(page) == <<[op |-> "ProgramPage", page |-> page]>>

MCPages == {<<<<p, q>>>>, <<<<p, q>>, <<q, p>>>>, <<<<p, p>>, <<p, q>>, <<q, z>>>>,
            <<<<p, q>>, <<q, q>>, <<q, p>>, <<z, p>>>>}

\* The firmware sets the features of both chips and then programs pages.
StartupFirst ==
  {SetTo(m4) \o SetTo(mode) \o Program(a) \o Program(b) : mode \in {m4, m5}, a, b \in MCPages}

\* A timing mode set between pages.
AnyOrder ==
  {SetTo(m4) \o Program(a) \o SetTo(m5) : a \in MCPages}
=============================================================================
