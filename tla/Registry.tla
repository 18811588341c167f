------------------------------ MODULE Registry ------------------------------
(***************************************************************************)
(* What the store promises, with nothing of how it keeps the promise: a    *)
(* registry with a current content, which every reader sees, and a durable *)
(* content, which a restart brings back.  What a client entered and was    *)
(* told is stored ("promised") is in the durable content.                  *)
(***************************************************************************)
EXTENDS StoreData

VARIABLES
  current,    \* what readers see
  durable,    \* what a restart brings back
  promised    \* per key, what the last client to write it was told is stored

regVars == <<current, durable, promised>>

Content == [devices : DeviceMaps, mappings : MappingMaps]
Nothing == [devices |-> NoDevices, mappings |-> NoMappings]

ValueIn(c, k) == UserValue(c.devices, c.mappings, k)

RegInit ==
  /\ current = Nothing
  /\ durable = Nothing
  /\ promised = [k \in Keys |-> None]

\* A scan or a request changes the current content.  A user's value that
\* changes, or may have changed, is no longer promised.
Change ==
  /\ current' \in Content
  /\ promised' \in [Keys -> Values \cup {Unsure}]
  /\ \A k \in Keys :
       \/ promised'[k] = Unsure
       \/ promised'[k] = promised[k] /\ ValueIn(current', k) = ValueIn(current, k)
  /\ UNCHANGED durable

\* The current content becomes durable, as a whole.
Persist == durable' = current /\ UNCHANGED <<current, promised>>

\* A client is told that its value is stored: only a value that is durable
\* and that readers see.
Promise ==
  /\ promised' \in [Keys -> Values \cup {Unsure}]
  /\ \A k \in Keys :
       \/ promised'[k] = promised[k]
       \/ promised'[k] = ValueIn(durable, k) /\ ValueIn(current, k) = ValueIn(durable, k)
  /\ UNCHANGED <<current, durable>>

\* The process dies: readers are left with the durable content.
Crash == current' = durable /\ UNCHANGED <<durable, promised>>

\* The disk loses the file while the process is down: nothing is promised.
Disaster ==
  /\ current = durable
  /\ current' = Nothing
  /\ durable' = Nothing
  /\ promised' = [k \in Keys |-> Unsure]

RegNext == Change \/ Persist \/ Promise \/ Crash \/ Disaster

RegSpec == RegInit /\ [][RegNext]_regVars
=============================================================================
