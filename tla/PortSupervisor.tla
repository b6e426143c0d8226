--------------------------- MODULE PortSupervisor ---------------------------
(***************************************************************************)
(* The port object of main/portSupervisor.cpp and the decisions the        *)
(* supervisor takes on it, as operators without state.  Irrigator.tla      *)
(* composes them into the tasks that call them.                            *)
(*                                                                         *)
(* One port stands for portList: main.cpp's portMap wires a single output, *)
(* portSwitchState always drives PORT_1, and main.cpp and                  *)
(* updatePortConfig only ever index portList[0].  b_portEnabled is set in  *)
(* the constructor and never cleared; duration is stored and never read by *)
(* a decision: neither is a field here.                                    *)
(***************************************************************************)
EXTENDS Integers

CONSTANTS
  U32,           \* number of values of a uint32_t
  U16,           \* number of values of a uint16_t
  BootQuantity   \* litres getVaultData gives every port it restores (3)

ASSUME WidthAssumption ==
  /\ U32 \in Nat \ {0}
  /\ U16 \in Nat \ {0}
  /\ BootQuantity \in 0 .. U16 - 1

CLOSED == "CLOSED"
OPEN   == "OPEN"

PortState == {CLOSED, OPEN}
Word32    == 0 .. U32 - 1
Word16    == 0 .. U16 - 1

(* A Port, and equally the st_portConfig the vault keeps of it: setVaultData
   copies every one of these fields and getVaultData copies them back.     *)
Port == [ state    : PortState,   \* portState_e
          switch   : Word32,      \* switchTime_u32
          interval : Word32,
          required : Word16,      \* flowLitresRequired_u16
          current  : Word16 ]     \* flowLitresCurrent_u16

-----------------------------------------------------------------------------
(* portSwitchState, CLOSED branch: what it records before it calls openPort. *)
Opened(p) == [p EXCEPT !.state = OPEN, !.current = 0]

(* portSwitchState, OPEN branch: what it records before it calls closePort. *)
Closed(p) == [p EXCEPT !.state = CLOSED]

(* Bug: the port is left in its slot.                                     *)
BugSameSlot(p) == p

(* ... and what it records after closePort returned.                       *)
NextSlot(p) == [p EXCEPT !.switch = (@ + p.interval) % U32]

(* runPortCheck's two conditions, evaluated in this order for each port.   *)
IsDue(p, t) == p.state = CLOSED /\ p.switch <= t

BugStrictlyMore(p) == p.state = OPEN /\ p.current > p.required

QuantityMet(p) == p.state = OPEN /\ p.current >= p.required

(* The minimum over a one-element list; 0xFFFFFFFF is its own minimum.     *)
getNextPortTriggerTime(p) == p.switch

(* Vault::getVaultData: addPort, then the stored switch time, state and
   count of litres; the stored quantity is read and not used.              *)
getVaultData(config) == [config EXCEPT !.required = BootQuantity]

=============================================================================
