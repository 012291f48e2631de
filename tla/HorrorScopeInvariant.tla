------------------------ MODULE HorrorScopeInvariant ------------------------
(***************************************************************************)
(* What holds of the command loop in every reachable state: the bytes read *)
(* so far are a whole argument and the settings fit the buffer (IInv), and *)
(* the place in the loop, the replies and the sample memory agree (FInv).  *)
(***************************************************************************)
EXTENDS HorrorScope

Bytes == 0 .. 255

Confs == [timeout : Nat, delay : Nat, numberOfSamples : 0 .. BufSize,
          glitch_length : Nat, bits12 : BOOLEAN, pulses : Nat]

\* How many argument bytes have been read in each place of the loop.
Parsing ==
    /\ in \in Seq(Bytes) /\ args \in Seq(Bytes)
    /\ pc = "cmd" => args = <<>>
    /\ pc = "args" => Len(args) < NArgs(cmd)
    /\ pc = "exec" => Len(args) = NArgs(cmd)

IInv == Parsing /\ conf \in Confs

Sent == {"T", "r", "d", "e", "text", "beyond", "U", "zero", "old", "new"}

\* What the line holds.
Line == out \in Seq(Sent) /\ sent \in Nat

\* Where the command loop is while the acquisition is somewhere.
Places ==
    /\ apc = "cleared" => pc \in {"ready", "wait"} /\ cmd = Ch.d
    /\ apc \in {"count", "dest", "enable", "spin"} => pc = "acquire"

\* While intact holds, the buffer was filled with the present settings.
Intact ==
    intact => /\ length = conf.numberOfSamples
              /\ apc # "cleared"
              /\ apc \in {"spin", "idle"} => fresh

FInv == Line /\ Places /\ Intact
=============================================================================
