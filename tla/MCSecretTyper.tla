--------------------------- MODULE MCSecretTyper ---------------------------
(* SecretTyper for TLC: programs of three classes.                         *)
EXTENDS SecretTyper

CONSTANTS Stack, Node, Other

Three == {Stack, Node, Other}

F(a, k, c) == [access |-> a, kind |-> k, of |-> c]

\* Lists of fields: the containers' own, classes in a circle, a class both
\* by value and by pointer, protected members, and types that are no class.
StackFields ==
  { <<F("private", "classPtr", Node)>>,
    <<F("private", "class", Node), F("public", "classPtr", Other), F("public", "builtinPtr", Null)>>,
    <<F("public", "classPtr", Stack), F("protected", "class", Node), F("private", "classPtr", Other)>> }

NodeFields ==
  { <<F("private", "builtin", Null), F("private", "classPtr", Node)>>,
    <<F("public", "classPtr", Stack), F("private", "class", Other)>> }

OtherFields ==
  { <<>>, <<F("public", "classPtr", Node), F("private", "classPtr", Stack)>>,
    <<F("private", "class", Null)>> }

FieldLists ==
  {[c \in Three |-> CASE c = Stack -> s [] c = Node -> n [] c = Other -> o] :
     s \in StackFields, n \in NodeFields, o \in OtherFields}

Variables ==
  {<<>>, <<Stack>>, <<Node, Stack>>, <<Other, Null>>}

Places == {[c \in Three |-> IF c = Other THEN p ELSE "input"] : p \in {"input", "system", "elsewhere"}}

\* A unit that declares a secret sees every class; one that does not need not.
Seen == {s \in [1 .. Units -> {{Stack, Node}, Three}] : TRUE}

AllPrograms ==
  {p \in [fields : FieldLists, vars : [1 .. Units -> Variables], sees : Seen,
          body : [Three -> {0}] \cup {[c \in Three |-> IF c = Stack THEN 0 ELSE 1]},
          written : {{}, {Node}}, ctors : {{<<Other, "private">>}},
          dtors : {{<<Node, "public">>}}, bare : {{}, {Stack}}, place : Places] :
     \A u \in 1 .. Units : p.vars[u] # <<>> => p.sees[u] = Three}
=============================================================================
