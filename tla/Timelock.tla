------------------------------ MODULE Timelock ------------------------------
(***************************************************************************)
(* What the timelocked governance of agent-registry promises, with no key, *)
(* no signer and no PDA: a lever, once set, moves only to a value that has *)
(* been on notice, untouched, for the whole delay in force when it was     *)
(* announced, and that delay never gets shorter.  Governance implements it.*)
(***************************************************************************)
EXTENDS Integers

CONSTANTS
  Levers,     \* what may be changed only with notice
  Values,     \* what a lever may be set to
  Tickets,    \* the places a notice can hang
  None,       \* no notice, no delay, levers not set up yet
  MinDelay,   \* the shortest delay that can be installed
  MaxDelay    \* the longest

VARIABLES
  now,        \* the clock
  setting,    \* [Levers -> Values], or None before set-up
  notice,     \* what hangs at each ticket
  delay       \* the delay in force, or None

vars == <<now, setting, notice, delay>>

Notice == [lever : Levers, value : Values, since : Int, wait : Int]

Init ==
  /\ now \in Nat
  /\ setting = None
  /\ notice = [t \in Tickets |-> None]
  /\ delay = None

SetUp ==
  /\ setting = None
  /\ setting' \in [Levers -> Values]
  /\ UNCHANGED <<now, notice, delay>>

Install ==
  /\ setting # None
  /\ delay = None
  /\ delay' \in MinDelay..MaxDelay
  /\ UNCHANGED <<now, setting, notice>>

Lengthen ==
  /\ delay # None
  /\ delay' \in (delay + 1)..MaxDelay
  /\ UNCHANGED <<now, setting, notice>>

Announce(t) ==
  /\ delay # None
  /\ notice[t] = None
  /\ \E lever \in Levers, value \in Values :
       notice' = [notice EXCEPT ![t] = [lever |-> lever, value |-> value,
                                        since |-> now, wait |-> delay]]
  /\ UNCHANGED <<now, setting, delay>>

Retract(t) ==
  /\ notice[t] # None
  /\ notice' = [notice EXCEPT ![t] = None]
  /\ UNCHANGED <<now, setting, delay>>

Enact(t) ==
  /\ notice[t] # None
  /\ now - notice[t].since >= notice[t].wait
  /\ setting' = [setting EXCEPT ![notice[t].lever] = notice[t].value]
  /\ notice' = [notice EXCEPT ![t] = None]
  /\ UNCHANGED <<now, delay>>

PassTime ==
  /\ now' \in Nat
  /\ now' > now
  /\ UNCHANGED <<setting, notice, delay>>

Next ==
  \/ SetUp
  \/ Install
  \/ Lengthen
  \/ \E t \in Tickets : Announce(t) \/ Retract(t) \/ Enact(t)
  \/ PassTime

Spec == Init /\ [][Next]_vars
=============================================================================
