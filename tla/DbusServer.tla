------------------------------- MODULE DbusServer -------------------------------
(***************************************************************************)
(* libs/dbus/dbus_server.cpp: the object table that the polling thread     *)
(* fills and that the main thread puts on the bus.  Its recursive mutex is *)
(* held for the whole of upsertObject() and for all of process() but the   *)
(* wait, the handlers of incoming calls included; who holds it is left to  *)
(* the module that runs the threads.                                       *)
(***************************************************************************)
EXTENDS FiniteSets

CONSTANTS
  SensorPaths,    \* paths of objects of Kind "Sensor"
  OtherPaths,     \* paths of inventory and event objects
  Absent          \* the value of a path that is not in the table

Paths == SensorPaths \cup OtherPaths

ASSUME AbsentAssumption == SensorPaths \cap OtherPaths = {}

VARIABLES
  objects,          \* the properties of each object, or Absent
  pendingAdds,      \* objects not exported yet
  pendingChanges,   \* objects whose change has not been signalled
  unannounced       \* history: sensors changed since their last PropertiesChanged

dbusVars == <<objects, pendingAdds, pendingChanges, unannounced>>

DbusInit ==
  /\ objects = [p \in Paths |-> Absent]
  /\ pendingAdds = {}
  /\ pendingChanges = {}
  /\ unannounced = {}

\* upsertObject with a path that is new to the table.  Event entries always
\* are: the model keeps the newest entry of each sensor under one path.
AddObject(path, properties) ==
  /\ objects' = [objects EXCEPT ![path] = properties]
  /\ pendingAdds' = pendingAdds \cup {path}
  /\ UNCHANGED <<pendingChanges, unannounced>>

\* upsertObject with a known path.  LastUpdated changes every time.
ChangeObject(path, properties) ==
  /\ objects' = [objects EXCEPT ![path] = properties]
  /\ pendingChanges' = pendingChanges \cup {path}
  /\ unannounced' = unannounced \cup ({path} \cap SensorPaths)
  /\ UNCHANGED pendingAdds

UpsertObject(path, properties) ==
  IF objects[path] = Absent THEN AddObject(path, properties)
                            ELSE ChangeObject(path, properties)

\* Mutation of Announced: changes are signalled before additions are exported.
AnnouncedBeforeExport == (pendingChanges \cap SensorPaths) \ pendingAdds

\* The changes that process() signals: those of exported sensors, and every
\* object is exported by then.
Announced == pendingChanges \cap SensorPaths

\* The head of process(): export what was added, then signal what changed.
ProcessPending ==
  /\ pendingAdds' = {}
  /\ pendingChanges' = {}
  /\ unannounced' = unannounced \ Announced
  /\ UNCHANGED objects
=============================================================================
