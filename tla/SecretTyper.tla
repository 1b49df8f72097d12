---------------------------- MODULE SecretTyper ----------------------------
(***************************************************************************)
(* secret-clang-tool --secret: a source transformation that gives every    *)
(* class T of which a variable secret<T> is declared, and every class its  *)
(* fields lead to, a specialisation secret<T>                              *)
(* (transformer/RecursiveSecretTyper.cc), and writes the changed files     *)
(* from input/ to output/ (consumer/consumer.cc).                          *)
(*                                                                         *)
(* The source files of the command line (run.sh: main.cpp, TestSuite.cpp)  *)
(* are translation units, transformed one after the other, each with a     *)
(* fresh typer and rewriter, all from the same input.  A header that two   *)
(* units include is written by both.                                       *)
(*                                                                         *)
(* constructSpecialization calls itself through the members of a class;    *)
(* stack holds the calls under way.  Each class has a header of its own,   *)
(* as in SecretExprs/include, so an edit is known by its class.            *)
(***************************************************************************)
EXTENDS Naturals, FiniteSets, SequencesExt

CONSTANTS Classes,
          Units,    \* the number of source files on the command line
          Programs, \* the programs to transform, see TypeOK
          MaxDepth, \* bound: the deepest recursion
          Null      \* getAsCXXRecordDecl of a type that is not a class

ASSUME SecretAssumption == Units \in Nat /\ MaxDepth \in Nat /\ Null \notin Classes

VARIABLES
  program, \* the program: never changes
  unit,    \* the source file being transformed
  pc,      \* "match", "write", "done", "dead"
  vars,    \* the variables of a secret type the matcher has still to report
  listed,  \* specializedSecretClasses
  stack,   \* constructSpecialization: the class and what is left to do
  text,    \* the rewriter: the edits made for each class
  files,   \* the headers WriteOutput has still to come to
  output,  \* the files in output/: the edits they hold for each class
  failed   \* history: a file could not be opened

typer == <<vars, listed, stack, text>>
disk  == <<files, output, failed>>
allVars == <<program, unit, pc, typer, disk>>

ClassKinds == {"class", "classPtr"}
PlainKinds == {"builtin", "builtinPtr"}
Field  == [access : {"public", "private", "protected"}, kind : PlainKinds, of : {Null}]
            \cup [access : {"public", "private", "protected"}, kind : ClassKinds,
                  of : Classes \cup {Null}]

Sees(u)     == program.sees[u]
HasBody(u, c) == program.body[c] \in {0, u}

\* The specialisations that are in the source already: addAllSpecializations
\* finds those the unit sees.
Given(u) == program.written \cap Sees(u)

NoEdits == [c \in Classes |-> <<>>]

\* main, registerBenchmarks: output/ starts as a copy of input/.
Init ==
  /\ program \in Programs
  /\ unit = 1 /\ pc = "match"
  /\ vars = program.vars[1] /\ listed = {} /\ stack = <<>> /\ text = NoEdits
  /\ files = {} /\ output = NoEdits /\ failed = FALSE

Die == pc' = "dead" /\ UNCHANGED <<program, unit, typer, disk>>
-----------------------------------------------------------------------------
(* constructSpecialization.                                                *)

\* secretPublicMembers and secretPrivateMembers: first the fields of the
\* access in question, then its methods.  Protected members are in neither.
Section(c, a) ==
  <<[kind |-> "label", access |-> a]>>
    \o SelectSeq(program.fields[c], LAMBDA f : f.access = a)
    \o <<[kind |-> "methods", access |-> a]>>

Members(c) == Section(c, "public") \o Section(c, "private")

\* What is inserted for a member.  The label of the public section ends the
\* line of a comment (getSecretAllocatorCode) and labels nothing.  A public
\* pointer to a builtin type loses its star; private builtin members are
\* wrapped in numa.  Methods are copied if the unit sees their bodies; of a
\* destructor whose body it does not see, the head is.
Inserted(u, c, m) ==
  CASE m.kind = "label"         -> IF m.access = "public" THEN <<>> ELSE <<m>>
    [] m.kind = "methods"       -> IF HasBody(u, c) THEN <<m>>
                                   ELSE IF <<c, m.access>> \in program.dtors
                                   THEN << <<"destructor", m.access>> >> ELSE <<>>
    [] m.kind \in ClassKinds    -> << <<"secret", m.kind, m.of>> >>
    [] m.kind \in PlainKinds    -> IF m.access = "public"
                                   THEN << <<"secret", "builtin">> >>
                                   ELSE << <<"numa", m.kind>> >>

\* makeVirtual: methods that are virtual already, as all are the second time,
\* get no second virtual.
Virtual(c) == IF text[c] = <<>> THEN <<"virtual">> ELSE <<>>

ConstructUnlisted(c, known, edits, calls) ==  \* faulty: listed only when it is finished
  /\ Len(calls) < MaxDepth
  /\ listed' = known
  /\ text' = [edits EXCEPT ![c] = @ \o Virtual(c) \o <<"open">>]
  /\ stack' = <<[class |-> c, todo |-> Members(c)]>> \o calls

\* The class is listed before its members are visited.
Construct(c, known, edits, calls) ==
  /\ Len(calls) < MaxDepth
  /\ listed' = known \cup {c}
  /\ text' = [edits EXCEPT ![c] = @ \o Virtual(c) \o <<"open">>]
  /\ stack' = <<[class |-> c, todo |-> Members(c)]>> \o calls

Current  == Head(stack)
Member   == Head(Current.todo)
Continue == <<[Current EXCEPT !.todo = Tail(@)]>> \o Tail(stack)
Insert   == [text EXCEPT ![Current.class] = @ \o Inserted(unit, Current.class, Member)]

Visiting(kinds) ==
  /\ pc = "match" /\ stack # <<>> /\ Current.todo # <<>> /\ Member.kind \in kinds

InTyper == UNCHANGED <<program, unit, pc, vars, disk>>

Copy ==
  /\ Visiting(PlainKinds \cup {"label"})
  /\ text' = Insert /\ stack' = Continue
  /\ UNCHANGED listed /\ InTyper

UnlistedPublic(m) ==  \* faulty: one of the two copies of the code does not specialise
  m.access = "public" /\ m.of \notin listed

\* A class that is not yet in specializedSecretClasses.
Unlisted(m) == m.of \notin listed

CopyKnown ==
  /\ Visiting(ClassKinds) /\ ~Unlisted(Member)
  /\ text' = Insert /\ stack' = Continue
  /\ UNCHANGED listed /\ InTyper

CopyNew ==
  /\ Visiting(ClassKinds) /\ Unlisted(Member) /\ Member.of # Null
  /\ Construct(Member.of, listed, Insert, Continue)
  /\ InTyper

\* An enumeration, an array, a reference, a pointer to a pointer: the null
\* class is specialised like any other.
CopyNoClass == Visiting(ClassKinds) /\ Member.of = Null /\ Die

\* getSecretConstructorSignature uses the definition of a constructor without
\* asking whether there is one.
Undefined(c, m) == <<c, m.access>> \in program.ctors /\ ~HasBody(unit, c)

CopyMethods ==
  /\ Visiting({"methods"}) /\ ~Undefined(Current.class, Member)
  /\ text' = Insert /\ stack' = Continue
  /\ UNCHANGED listed /\ InTyper

CopyUndefined == Visiting({"methods"}) /\ Undefined(Current.class, Member) /\ Die

Close ==
  /\ pc = "match" /\ stack # <<>> /\ Current.todo = <<>>
  /\ text' = [text EXCEPT ![Current.class] = Append(@, "close")]
  /\ stack' = Tail(stack)
  /\ UNCHANGED listed /\ InTyper
-----------------------------------------------------------------------------
(* run, for one variable of type secret<T> or a pointer to it.             *)

Known == listed \cup Given(unit)

Reported == pc = "match" /\ stack = <<>> /\ vars # <<>>

MatchNew ==
  /\ Reported /\ Head(vars) \notin Known \cup {Null}
  /\ vars' = Tail(vars)
  /\ Construct(Head(vars), Known, text, stack)
  /\ UNCHANGED <<program, unit, pc, disk>>

MatchKnown ==
  /\ Reported /\ Head(vars) \in Known
  /\ vars' = Tail(vars) /\ listed' = Known
  /\ UNCHANGED <<program, unit, pc, stack, text, disk>>

\* The name of the class is printed before anything else.
MatchNoClass == Reported /\ Head(vars) = Null /\ Die
-----------------------------------------------------------------------------
(* HandleTranslationUnit after start.                                      *)

\* includeSecretHeader inserts text into every file but the source file and
\* TestSuite.hpp, so the rewriter has a buffer for all of them.
IncludeHeader ==
  /\ pc = "match" /\ stack = <<>> /\ vars = <<>>
  /\ files' = {c \in Sees(unit) : c \notin program.bare \/ text[c] # <<>>}
  /\ pc' = "write"
  /\ UNCHANGED <<program, unit, typer, output, failed>>

Reaches(c, place) == pc = "write" /\ c \in files /\ program.place[c] = place

WriteFile(c) ==
  /\ Reaches(c, "input")
  /\ output' = [output EXCEPT ![c] = text[c]]
  /\ files' = files \ {c}
  /\ UNCHANGED <<program, unit, pc, typer, failed>>

SkipSystem(c) ==
  /\ Reaches(c, "system")
  /\ files' = files \ {c}
  /\ UNCHANGED <<program, unit, pc, typer, output, failed>>

\* The path has no "input" to replace: std::out_of_range, which nobody catches.
NoSuchPath(c) == Reaches(c, "elsewhere") /\ Die

\* The unit's other files are not written.
CannotOpen(c) ==
  /\ Reaches(c, "input")
  /\ files' = {} /\ failed' = TRUE
  /\ UNCHANGED <<program, unit, pc, typer, output>>

SameTyper(u) ==  \* faulty: the list of specialised classes outlives the unit
  vars' = program.vars[u] /\ stack' = <<>> /\ text' = NoEdits /\ UNCHANGED listed

\* A new action, consumer, rewriter and typer for the next source file.
NewTyper(u) ==
  /\ vars' = program.vars[u] /\ listed' = {} /\ stack' = <<>> /\ text' = NoEdits

NextUnit ==
  /\ pc = "write" /\ files = {} /\ unit < Units
  /\ unit' = unit + 1 /\ pc' = "match"
  /\ NewTyper(unit + 1)
  /\ UNCHANGED <<program, disk>>

LastUnit ==
  /\ pc = "write" /\ files = {} /\ unit = Units
  /\ pc' = "done"
  /\ UNCHANGED <<program, unit, typer, disk>>

Next ==
  \/ Copy \/ CopyKnown \/ CopyNew \/ CopyNoClass \/ CopyMethods \/ CopyUndefined \/ Close
  \/ MatchNew \/ MatchKnown \/ MatchNoClass
  \/ IncludeHeader
  \/ \E c \in Classes : WriteFile(c) \/ SkipSystem(c) \/ NoSuchPath(c) \/ CannotOpen(c)
  \/ NextUnit \/ LastUnit

\* One thread, which nothing can keep waiting.
Spec == Init /\ [][Next]_allVars /\ WF_allVars(Next)
-----------------------------------------------------------------------------
\* The classes a specialisation of c mentions.
Mentions(c) ==
  {f.of : f \in {g \in ToSet(program.fields[c]) :
                   g.kind \in ClassKinds /\ g.access # "protected"}}

\* What a unit must specialise: the classes its variables name, the classes
\* those mention, and so on, up to the specialisations the source gives.
Complete(u, S) ==
  \A c \in ToSet(program.vars[u]) \cup UNION {Mentions(d) : d \in S} :
     c \in S \cup Given(u)

Needed(u) == {c \in Classes : \A S \in SUBSET Classes : Complete(u, S) => c \in S}

\* The whole specialisation, as if nothing came between its parts.
Specialised(u, c) ==
  IF c \notin Needed(u) THEN <<>>
  ELSE <<"virtual", "open">> \o FlattenSeq([i \in DOMAIN Members(c) |-> Inserted(u, c, Members(c)[i])])
         \o <<"close">>

TypeOK ==
  /\ DOMAIN program =
       {"fields", "vars", "sees", "body", "written", "ctors", "dtors", "bare", "place"}
  /\ program.ctors \cup program.dtors \subseteq Classes \X {"public", "private"}
  /\ program.fields \in [Classes -> Seq(Field)]
  /\ program.vars \in [1 .. Units -> Seq(Classes \cup {Null})]
  /\ program.sees \in [1 .. Units -> SUBSET Classes] /\ program.body \in [Classes -> 0 .. Units]
  /\ program.place \in [Classes -> {"input", "system", "elsewhere"}]
  /\ \A S \in {program.written, program.bare, listed, files} : S \subseteq Classes
  /\ unit \in 1 .. Units /\ pc \in {"match", "write", "done", "dead"}
  /\ vars \in Seq(Classes \cup {Null}) /\ Len(stack) <= Cardinality(Classes)
  /\ DOMAIN text = Classes /\ DOMAIN output = Classes /\ failed \in BOOLEAN

\* When a unit is written, exactly the classes its variables lead to have been
\* specialised, each once and in one piece, however their fields refer to each
\* other and whatever was visited in between.
UnitIsComplete ==
  /\ TypeOK
  /\ pc = "write" => \A c \in Classes : text[c] = Specialised(unit, c)

\* The units that write the header of a class.
Writers(c) ==
  {u \in 1 .. Units : c \in Sees(u) /\ (c \notin program.bare \/ c \in Needed(u))}

\* Output files hold whole specialisations or none, also when the tool has
\* died or a file could not be opened.  When all went well, a header is what
\* the last unit that writes it has made of it: specialisations that only
\* earlier units asked for are gone.
LastUnitDecides ==
  \A c \in Classes :
    LET made == {Specialised(u, c) : u \in Writers(c)}
    IN /\ output[c] \in made \cup {<<>>}
       /\ program.place[c] # "input" => output[c] = <<>>
       /\ pc = "done" /\ ~failed /\ program.place[c] = "input" /\ made # {}
            => output[c] = Specialised(Max(Writers(c)), c)

\* The recursion ends, for classes that lead to themselves too, and every
\* source file is done, unless the tool dies.
Termination == <>(pc \in {"done", "dead"})
=============================================================================
