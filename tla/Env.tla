--------------------------------- MODULE Env ---------------------------------
(***************************************************************************)
(* The environment of platform/common/partition/env.c: variables kept in   *)
(* memory, all of which every set_env writes to their partition under one  *)
(* checksum, and a start reads back.  The memory is a row of strings       *)
(* name=value; the entries are modelled, and their lengths, which the room *)
(* left is counted from.  The partition is external: a write may fail, or  *)
(* the power go, with the area as it was, as it should be, or torn.        *)
(***************************************************************************)
EXTENDS Integers, Sequences, SequencesExt, FiniteSets

CONSTANTS
    Names,
    NameLength,     \* of each name
    Values,         \* a value is named by its length
    DataSize        \* CFG_ENV_DATA_SIZE

ASSUME EnvAssumption ==
    NameLength \in Nat \ {0} /\ Values \subseteq Nat /\ DataSize \in Nat \ {0}

VARIABLES
    envData,        \* env_data: the entries, in order
    envValid,       \* env_valid
    area,           \* the partition: the entries, or Torn when signature or checksum do not fit
    meantEnv,       \* history: name -> the value it was set to last, Absent, or Unsure
    doubt           \* history: memory was wiped out, or not read, though the partition may be good

envVars == <<envData, envValid, area, meantEnv, doubt>>

Torn == <<[name |-> "", value |-> 0]>>
Absent == -1
Unsure == -2

Named(data, name) == {i \in DOMAIN data : data[i].name = name}

\* Both get_env and set_env take the first entry of the name.
EntryOf(data, name) == CHOOSE i \in Named(data, name) : \A j \in Named(data, name) : i <= j

\* get_env of the entries in data.
Value(data, name) == IF Named(data, name) = {} THEN Absent ELSE data[EntryOf(data, name)].value

\* The bytes the entries take: '=' and a zero are in each.
Taken(data) ==
    Cardinality(UNION {{i} \X (1 .. NameLength + data[i].value + 2) : i \in DOMAIN data})

\* The partition is as it was made, without a variable, or was never written.
EnvInit ==
    /\ envData = <<>> /\ envValid = FALSE
    /\ area = Torn
    /\ meantEnv = [n \in Names |-> Absent]
    /\ doubt = FALSE

\* env_init, at the start of the boot loader.
EnvStart(readable) ==
    LET good == readable /\ area # Torn
    IN  /\ envValid' = good
        /\ envData' = IF good THEN area ELSE <<>>
        /\ doubt' = (~readable /\ area # Torn)
        /\ meantEnv' = IF area = Torn THEN [n \in Names |-> Absent] ELSE meantEnv
        /\ UNCHANGED area

\* Mutant: the old value of a variable is not deleted when it is the last entry.
OthersKeepLast(name) ==
    IF Named(envData, name) \subseteq {Len(envData)} THEN envData ELSE RemoveAt(envData, EntryOf(envData, name))

\* The variable's old value is deleted, in memory.
Others(name) ==
    IF Named(envData, name) = {} THEN envData ELSE RemoveAt(envData, EntryOf(envData, name))

\* The new entry and the second zero behind it fit.
Fits(name, value) == NameLength + 2 + value + 1 <= DataSize - Taken(Others(name))

NewData(name, value) == Append(Others(name), [name |-> name, value |-> value])

\* set_env is out of room: it returns an error, with the old value deleted in memory only.
SetOverflows(name, value) ==
    /\ ~Fits(name, value)
    /\ envData' = Others(name)
    /\ meantEnv' = [meantEnv EXCEPT ![name] = IF Value(envData, name) = Absent THEN @ ELSE Unsure]
    /\ UNCHANGED <<envValid, area, doubt>>

\* set_env returns 0.  What was not in memory is now gone from the partition too.
SetEnv(name, value) ==
    /\ Fits(name, value)
    /\ envData' = NewData(name, value)
    /\ area' = envData'
    /\ envValid' = TRUE
    /\ meantEnv' = [n \in Names |-> IF n = name THEN value
                                    ELSE IF doubt THEN Absent ELSE meantEnv[n]]
    /\ doubt' = FALSE

\* partition_write fails: all of the memory is wiped out, and stays valid if it was.
SetFails(name, value, left) ==
    /\ Fits(name, value)
    /\ left \in {area, NewData(name, value), Torn}
    /\ area' = left
    /\ envData' = <<>>
    /\ doubt' = TRUE
    /\ meantEnv' = IF left = Torn \/ doubt THEN [n \in Names |-> Unsure] ELSE [meantEnv EXCEPT ![name] = Unsure]
    /\ UNCHANGED envValid

\* The power goes while set_env writes.
SetInterrupted(name, value, left, readable) ==
    /\ Fits(name, value)
    /\ left \in {area, NewData(name, value), Torn}
    /\ LET good == readable /\ left # Torn
       IN  /\ area' = left
           /\ envValid' = good
           /\ envData' = IF good THEN left ELSE <<>>
           /\ doubt' = (~readable /\ left # Torn)
    /\ meantEnv' = IF left = Torn THEN [n \in Names |-> Absent]
                   ELSE IF doubt THEN [n \in Names |-> Unsure]
                   ELSE [meantEnv EXCEPT ![name] = Unsure]

EnvNext ==
    \/ \E readable \in BOOLEAN : EnvStart(readable)
    \/ \E name \in Names, value \in Values :
        \/ SetOverflows(name, value)
        \/ SetEnv(name, value)
        \/ \E left \in {area, NewData(name, value), Torn} :
            \/ SetFails(name, value, left)
            \/ \E readable \in BOOLEAN : SetInterrupted(name, value, left, readable)

EnvSpec == EnvInit /\ [][EnvNext]_envVars

---------------------------------------------------------------------------
(* Properties *)

\* What set_env said is set is what get_env finds and what the next start reads, and no
\* other variable is lost or comes back, through overflows, failed writes and power cuts,
\* short of the losses set_env and the boot itself cause: a variable is lost when the
\* checksum does not fit, or when another is set after the memory was wiped (env.c:239).
\* The entries always leave room for the zero that ends them (env.c:221).
EnvKept ==
    /\ ~doubt => \A n \in Names : meantEnv[n] \in {Unsure, Value(envData, n)}
    /\ area # Torn => \A n \in Names : meantEnv[n] \in {Unsure, Value(area, n)}
    /\ Cardinality({envData[i].name : i \in DOMAIN envData}) = Len(envData)
    /\ Taken(envData) < DataSize
=============================================================================
