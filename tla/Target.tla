------------------------------- MODULE Target -------------------------------
(***************************************************************************)
(* The target of the measurements, toe-arduino/sketch_slowAes, and the     *)
(* part of acq/runSetup.py that talks to it (acq/runTarget.py is the same  *)
(* without a scope).  The sketch reads 'a', sixteen bytes and one more,    *)
(* and sends the encryption.  The script holds the last byte back until    *)
(* the scope is armed; an exception in between leaves the sketch in the    *)
(* middle of a command.  testTarget then sends 't's until exactly "T\r\n"  *)
(* comes back: the sketch takes the first of them for what it misses.      *)
(*                                                                         *)
(* The line to the target is queues of bytes.  The sketch answers within   *)
(* the timeouts of the script (0.5 s), so a read that wants more than      *)
(* comes ends when the sketch waits for input.  What the scope does is     *)
(* left open: Scope has it.                                                *)
(***************************************************************************)
EXTENDS AES

CONSTANTS
    Keys,   \* the key of the sketch
    Inputs, \* what os.urandom(16) returns
    Missing \* how many bytes of an encryption an earlier script has sent

ASSUME KeysAssumption == \A key \in Keys : Len(key) \in {16, 24, 32}
ASSUME InputsAssumption == \A in \in Inputs : Len(in) = 16 /\ \A x \in 1 .. 16 : in[x] # 10
ASSUME MissingAssumption == Missing \subseteq 0 .. 16

VARIABLES
    tpc,            \* where the sketch is
    key, w,
    data, st, r,    \* the block, the state and the round of cipher
    tin, tout,      \* bytes to and from the target
    spc,            \* where the script is
    dataIn, response,
    saved           \* the last trace of addTrace: input and output of AES

targetVars == <<tpc, key, w, data, st, r>>
scriptVars == <<spc, dataIn, response, saved>>
vars       == <<targetVars, tin, tout, scriptVars>>

\* 'a', 't', '\n', "T\r\n", "Incorrect Command!\r\n" and what setup sends.
Char == [a |-> 97, t |-> 116, newline |-> 10]
TestReply == <<84, 13, 10>>
Refusal == [i \in 1 .. 20 |-> 73]
Greeting == [i \in 1 .. 23 |-> 116]

\* A sketch that has just started, that waits for a command, or for the rest
\* of one.
Init ==
    /\ key \in Keys /\ w = key_expansion(key)
    /\ \/ tpc = "command" /\ data = <<>> /\ tout \in {<<>>, Greeting}
       \/ tpc = "data" /\ tout = <<>> /\ \E n \in Missing : data = [i \in 1 .. n |-> 0]
    /\ st = <<>> /\ r = 0
    /\ tin = <<>>
    /\ spc = "test" /\ dataIn = <<>> /\ response = <<>> /\ saved = <<>>

-----------------------------------------------------------------------------
\* loop(): the key schedule and the command.
ReadCommand ==
    /\ tpc = "command" /\ tin # <<>>
    /\ w' = key_expansion(key)
    /\ tin' = Tail(tin)
    /\ tpc' = IF Head(tin) = Char.a THEN "data" ELSE "command"
    /\ tout' = CASE Head(tin) = Char.a -> tout
                 [] Head(tin) = Char.t -> tout \o TestReply
                 [] OTHER -> tout \o Refusal
    /\ data' = <<>> /\ st' = <<>> /\ r' = 0
    /\ UNCHANGED <<key, scriptVars>>

ReadData ==
    /\ tpc = "data" /\ tin # <<>> /\ Len(data) < 16
    /\ data' = Append(data, Head(tin)) /\ tin' = Tail(tin)
    /\ UNCHANGED <<tpc, key, w, st, r, tout, scriptVars>>

\* Any byte is good for the newline; then cipher begins.
ReadNewline ==
    /\ tpc = "data" /\ tin # <<>> /\ Len(data) = 16
    /\ tin' = Tail(tin)
    /\ tpc' = "cipher"
    /\ st' = add_round_key(Load(data), w, 0) /\ r' = 1
    /\ UNCHANGED <<key, w, data, tout, scriptVars>>

\* A round of cipher; the last one is followed by Serial.write(out).
CipherRound ==
    /\ tpc = "cipher"
    /\ st' = Round(st, w, r, Nr(key))
    /\ IF r = Nr(key)
       THEN tpc' = "command" /\ tout' = tout \o Store(st') /\ UNCHANGED r
       ELSE r' = r + 1 /\ UNCHANGED <<tpc, tout>>
    /\ UNCHANGED <<key, w, data, tin, scriptVars>>

Sketch == ReadCommand \/ ReadData \/ ReadNewline \/ CipherRound

-----------------------------------------------------------------------------
\* The sketch has nothing to say before it gets another byte.
Quiet == tin = <<>> /\ tpc # "cipher"

\* testTarget
Test ==
    /\ spc = "test"
    /\ spc' = "tested"
    /\ tin' = Append(tin, Char.t)
    /\ UNCHANGED <<targetVars, tout, dataIn, response, saved>>

\* Variant: three bytes are read, and any three will do.
TestedShort ==
    /\ spc = "tested" /\ Quiet
    /\ spc' = IF Len(tout) >= 3 THEN "attempt" ELSE "test"
    /\ tout' = SubSeq(tout, 4, Len(tout))
    /\ UNCHANGED <<targetVars, tin, dataIn, response, saved>>

\* Variant: the reply is compared without its line end.
TestedBare ==
    /\ spc = "tested" /\ Quiet
    /\ spc' = IF tout = <<84>> THEN "attempt" ELSE "test"
    /\ tout' = <<>>
    /\ UNCHANGED <<targetVars, tin, dataIn, response, saved>>

\* target.read(100) == b'T\r\n'
Tested ==
    /\ spc = "tested" /\ Quiet
    /\ spc' = IF tout = TestReply THEN "attempt" ELSE "test"
    /\ tout' = <<>>
    /\ UNCHANGED <<targetVars, tin, dataIn, response, saved>>

\* target.write(b'a' + dataIn)
Ask ==
    /\ spc = "attempt"
    /\ spc' = "arm"
    /\ dataIn' \in Inputs
    /\ tin' = tin \o <<Char.a>> \o dataIn'
    /\ UNCHANGED <<targetVars, tout, response, saved>>

\* scope.arm() raises, or the newline follows.
Arm ==
    /\ spc = "arm"
    /\ \/ spc' = "test" /\ UNCHANGED tin
       \/ spc' = "response" /\ tin' = Append(tin, Char.newline)
    /\ UNCHANGED <<targetVars, tout, dataIn, response, saved>>

\* target.read(16); fewer raise.
GetResponse ==
    /\ spc = "response"
    /\ \/ /\ Len(tout) >= 16
          /\ response' = SubSeq(tout, 1, 16) /\ tout' = SubSeq(tout, 17, Len(tout))
          /\ spc' = "samples"
       \/ /\ Len(tout) < 16 /\ Quiet
          /\ tout' = <<>> /\ UNCHANGED response
          /\ spc' = "test"
    /\ UNCHANGED <<targetVars, tin, dataIn, saved>>

\* waitForCompletion and getSamples: an exception, a missed trigger, or
\* ts.addTrace(Trace(b'', dataIn + response, samples)).
Save ==
    /\ spc = "samples"
    /\ \/ spc' = "test" /\ UNCHANGED saved
       \/ spc' = "attempt" /\ saved' \in {saved, dataIn \o response}
    /\ response' = <<>>
    /\ UNCHANGED <<targetVars, tin, tout, dataIn>>

Script == Test \/ Tested \/ Ask \/ Arm \/ GetResponse \/ Save

Next == Sketch \/ Script

Spec == Init /\ [][Next]_vars

\* Sketch and script run.  The first conjunct is WF_vars(Sketch) with the
\* condition for a step of the sketch written out, which is not Quiet.
FairSpec == Spec /\ ([]<>Quiet \/ []<><<Sketch>>_vars) /\ WF_vars(Script)

-----------------------------------------------------------------------------
CONSTANT Known(_, _)    \* published outputs: of a key and an input

(***************************************************************************)
(* What a trace is saved with belongs together: its second half is the     *)
(* published encryption of its first under the key of the sketch.  No      *)
(* answer to an earlier attempt, and no encryption of 't's that testTarget *)
(* sent, is saved (runSetup.py lines 77-108, the sketch lines 40-64, aes.c *)
(* lines 345-412).                                                         *)
(***************************************************************************)
SavedBelongTogether ==
    saved # <<>> => SubSeq(saved, 17, 32) = Known(key, SubSeq(saved, 1, 16))

(***************************************************************************)
(* The body of the loop of inv_cipher undoes each round of cipher, the     *)
(* last one included (aes.c lines 383-443).                                *)
(***************************************************************************)
RoundsInvert == [][CipherRound => InvRound(st', w, r, Nr(key)) = st]_vars

(***************************************************************************)
(* On every state cipher meets, sub_bytes with its table and mix_columns   *)
(* with its shift-and-add product do what FIPS 197 defines by arithmetic   *)
(* on polynomials (aes.c lines 31-47, 65-116, 185-201, 278-290).           *)
(***************************************************************************)
StepsAreStandard ==
    tpc = "cipher" =>
        LET subbed == sub_bytes(st)
            mixed  == mix_columns(st)
        IN  \A x \in 1 .. 16 :
                LET Below(n) == Exponents(st[At(((Row(x) - 1 + n) % 4) + 1, Col(x))])
                    Terms    == <<Times({1}, Below(0)), Times({0, 1}, Below(1)), Below(2), Below(3)>>
                IN  /\ Substitutes(Exponents(st[x]), Exponents(subbed[x]))
                    /\ Exponents(mixed[x]) =
                           {e \in 0 .. 7 : Cardinality({n \in 1 .. 4 : e \in Terms[n]}) % 2 = 1}

(***************************************************************************)
(* testTarget comes back, wherever it finds the sketch in a command        *)
(* (runSetup.py lines 43-50).                                              *)
(***************************************************************************)
TestTargetEnds == spc = "test" ~> spc = "attempt"
=============================================================================
