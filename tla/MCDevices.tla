----------------------------- MODULE MCDevices ------------------------------
(***************************************************************************)
(* The programs that own a board, a bus or a line, in one run.  A behaviour *)
(* is one of the subbus server built with flavor "serusb", of the one for  *)
(* CAN over a "socket" or "slcan", or of a "modbus" master.                *)
(***************************************************************************)
EXTENDS Modbus, SerUsb, CanBus

CONSTANT Flavors

VARIABLE flavor

Small == [out |-> 1, in |-> 1]
Large == [out |-> 2, in |-> 2]

(* Requests of one part, or of a large and a small one, that may be refused or
   whose frames may be lost. *)
OneOrTwo == {<<Small>>, <<Large, Small>>}

TwoDevices == <<"d1", "d2">>

ASSUME DevicesAssumption ==
  SerUsbAssumption /\ CanAssumption /\ ModbusAssumption

vars == <<flavor, servars, canVars, mbvars>>

(* Those that do not run stay as they are. *)
DevicesInit ==
  /\ flavor \in Flavors
  /\ SerInit /\ CanInit /\ Init
  /\ q.link = IF flavor = "slcan" THEN "slcan" ELSE "socket"

OfSer(A) == flavor = "serusb" /\ A /\ UNCHANGED <<flavor, canVars, mbvars>>
OfCan(A) == flavor \in {"socket", "slcan"} /\ A /\ UNCHANGED <<flavor, servars, mbvars>>
OfRTU(A) == flavor = "modbus" /\ A /\ UNCHANGED <<flavor, servars, canVars>>

DevicesNext == OfSer(SerNext) \/ OfCan(CanNext) \/ OfRTU(Next)

(* Each is as fair as its own specification says. *)
DevicesFairness ==
  /\ WF_vars(OfSer(PortReads) \/ OfCan(CanReads) \/ OfRTU(Input))
  /\ WF_vars(OfSer(SerTimeout) \/ OfCan(CanTimeout) \/ OfRTU(Timeout))
  /\ WF_vars(OfSer(SerDrain) \/ OfRTU(Drain))
  /\ WF_vars(OfSer(SerBoard) \/ OfCan(CanBoard) \/ OfRTU(TmSync))

DevicesSpec == DevicesInit /\ [][DevicesNext]_vars /\ DevicesFairness
-----------------------------------------------------------------------------
AllTypesOK ==
  SerTypeOK /\ PendingIsFirst /\ CanTypeOK /\ TypeOK

(* With each of the subbus servers, each request is replied to (serusb.cc:183-188,
   subbusd_CAN_interface.cc:363-401). *)
Completed == SerCompleted /\ CanCompleted

(* Something that is claimed of any behaviour of the master. *)
AllServed == []<>(flavor = "modbus") => Served
=============================================================================
