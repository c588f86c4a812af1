---------------------------- MODULE MCOperatorPage ----------------------------
(* The page under three kinds of use.                                      *)
EXTENDS OperatorPage

MCSettings == {NoOrigin, CHOOSE o \in Origins : TRUE}
Other == CHOOSE o \in Origins : TRUE
MCHostConfigs == {[effective |-> NoOrigin, pending |-> p, backup |-> Other] : p \in {None, Other}}
Document(mode, widgets) == [mode |-> mode, ha |-> mode = "unsaid", widgets |-> widgets]
MCPageDocuments ==
  {Document("kea", {"w", "wk"}), Document("other", {"w"}), Document("other", {"wk"}), Document("unsaid", {})}
=============================================================================
