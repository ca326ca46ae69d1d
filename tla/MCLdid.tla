------------------------------- MODULE MCLdid -------------------------------
(***************************************************************************)
(* The three modules of ldid for TLC.  They share nothing: a behaviour is  *)
(* one of the part it begins with, while the others stay where they began. *)
(***************************************************************************)
EXTENDS LdidLayout, LdidMachO, LdidImplements

CONSTANTS
  Multiples  \* of a page: code sizes are around these

VARIABLE part
mcVars == <<part, vars, machVars, signVars>>

\* Sizes around the 16-byte and the page boundary.
MCSizes == {Page * k + d : k \in Multiples, d \in {-17, -16, -15, -1, 0, 1, 15, 16, 17}} \cap (Nat \ {0})
-----------------------------------------------------------------------------
(* Mach-O files: the commands that ldid looks at, in several orders, some  *)
(* of them more than once; sections one behind the other, with a gap, and  *)
(* one that ends where the addresses end.                                  *)

Command(v, o)   == [cmd |-> Stored(<<v>>, o)]
Segment(o, s)   == [cmd |-> Stored(<<"segment">>, o), sections |-> s]
Section(a, n, p) == [addr |-> a, size |-> n, offset |-> p]
Identity(o)     == [cmd |-> Stored(<<"id_dylib">>, o), timestamp |-> Stored(<<"built">>, o)]
UuidCmd(o)      == [cmd |-> Stored(<<"uuid">>, o), uuid |-> "u"]
SignatureCmd(o) == [cmd |-> Stored(<<"code_signature">>, o), xml |-> "xml"]

CmdLists(o) ==
  LET text == Segment(o, <<Section(2, 3, 1), Section(5, 2, 9)>>)
      high == Segment(o, <<Section(9, 6, 20), Section(15, 1, 30)>>)
  IN  {<<text, high, Identity(o), UuidCmd(o), Command("reexport_dylib", o), SignatureCmd(o)>>,
       <<Command("reexport_dylib", o), Identity(o), Command("load_dylib", o)>>,
       <<text, UuidCmd(o), SignatureCmd(o), high>>}

Mach(f, n, o, magic, type, arm, cmds) ==
  [fat |-> f, archs |-> n, order |-> o, magic |-> <<magic>>, filetype |-> <<type>>,
   flags |-> {}, arm |-> arm, pages |-> IF Len(cmds) = 6 THEN <<"linked">> ELSE Zero, cmds |-> cmds]

\* A file without commands stands still in the runs of the other parts.
Idle == Mach("no", 0, "big", "mach", "execute", FALSE, <<>>)

MCMachs ==
  {Idle}
    \cup UNION {{Mach(f, n, o, "mach", "dylib", TRUE, c) : f \in {"no", "little", "big"}, n \in {0, 2},
                                                     c \in CmdLists(o)} : o \in Order}
    \cup {Mach(f, 2, o, magic, type, arm, <<UuidCmd(o)>>) :
            f \in {"no", "big"}, o \in Order, magic \in {"mach", "mach64"},
            type \in {"object", "execute"}, arm \in BOOLEAN}

MCArgLists ==
  {<< <<"-T-">> >>,
   << <<"-T", <<"t1">> >>, <<"-t">> >>,
   << <<"-R">> >>,
   << <<"-R">>, <<"-T-">>, <<"-T", <<"t1">> >> >>,
   << <<"-t">>, <<"-u">>, <<"-e">>, <<"-w", 4>> >>,
   << <<"-u">>, <<"-w", 14>> >>, << <<"-w", 7>> >>, << <<"-w", 6>> >>, << <<"-w", 15>> >>,
   << <<"-s">> >>, << <<"-T-">>, <<"-e">>, <<"-s">> >>, << <<"-s">>, <<"-S">> >>,
   << <<"-S">> >>}
-----------------------------------------------------------------------------
Fixed(var, set) == var = CHOOSE x \in set : TRUE

MCInit ==
  /\ part \in {"layout", "mach-o", "processes"}
  /\ Init /\ (part # "layout" => Fixed(size, Sizes) /\ Fixed(base, BaseLengths) /\ xml = NoXml)
  /\ MachInit /\ (part # "mach-o" => mach = Idle)
  /\ SignInit /\ (part # "processes" => Fixed(latest, [Files -> Versions]))

MCNext ==
  /\ UNCHANGED part
  /\ \/ part = "layout" /\ Next /\ UNCHANGED <<machVars, signVars>>
     \/ part = "mach-o" /\ MachNext /\ UNCHANGED <<vars, signVars>>
     \/ part = "processes" /\ SignNext /\ UNCHANGED <<vars, machVars>>

MCSpec == MCInit /\ [][MCNext]_mcVars /\ WF_signVars(SignStep)
=============================================================================
