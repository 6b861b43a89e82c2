---------------------------- MODULE AccessManager ----------------------------
(***************************************************************************)
(* The users, PIN credentials and schedules of intercom_buzzer:            *)
(* AccessManager<PIN>, its data types and AccessStorage.                   *)
(*                                                                         *)
(* Each kind of entry is a table: an array in RAM, the list of the indexes *)
(* that were ever set, and a copy of both in persistent storage.  A setter *)
(* changes the RAM, adds the index, stores the entry and then the list;    *)
(* each store may fail, and the power may go at any time, which between    *)
(* the two stores is a list that was not stored followed by Restart.       *)
(* Everything runs on the Matter thread, so a setter is one step.          *)
(***************************************************************************)
EXTENDS Naturals, Sequences, FiniteSets

CONSTANTS MaxUsers,        \* CONFIG_LOCK_MAX_NUM_USERS
          MaxPins,         \* CONFIG_LOCK_MAX_NUM_CREDENTIALS_PER_TYPE
          PinsPerUser,     \* CONFIG_LOCK_MAX_NUM_CREDENTIALS_PER_USER
          MaxSchedules,    \* the slots of a schedule table
          Owners,          \* the schedule tables: <<kind, user>>
          UniqueIds, Secrets, Times,   \* what the controllers write
          None,            \* no identifier, secret, data or entry
          Sets,            \* calls of a setter in a behaviour (a bound)
          Failures         \* failed stores in a behaviour (a bound)

ASSUME SizesArePositive == /\ MaxUsers \in Nat \ {0}
                           /\ MaxPins \in Nat \ {0}
                           /\ PinsPerUser \in Nat \ {0}
                           /\ MaxSchedules \in Nat \ {0}
ASSUME OwnersHaveAKind == Owners \subseteq {"week", "year", "holiday"} \X Nat
ASSUME BoundsAreNatural == Sets \in Nat /\ Failures \in Nat
ASSUME NoneIsOther == None \notin UniqueIds \cup Secrets \cup Times

Users == 1 .. MaxUsers
Pins == 1 .. MaxPins
Week == {o \in Owners : o[1] = "week"}
Year == {o \in Owners : o[1] = "year"}
Holiday == {o \in Owners : o[1] = "holiday"}
Tables == {<<"user", 0>>, <<"pin", 0>>} \cup Owners
UserTable == <<"user", 0>>
PinTable == <<"pin", 0>>

Capacity(t) == IF t = UserTable THEN MaxUsers
               ELSE IF t = PinTable THEN MaxPins ELSE MaxSchedules
Index(t) == 1 .. Capacity(t)
Slots == UNION {{t} \X Index(t) : t \in Tables}

VARIABLES
  entry,          \* entry[t, i]: mUsers, mCredentials, mWeekDaySchedule, ...
  indexes,        \* indexes[t]: mUsersIndexes, mCredentialsIndexes, ...
  nv_entry,       \* the stored entries
  nv_indexes,     \* the stored lists
  require_pin,    \* mRequirePINForRemoteOperation
  nv_require_pin, \* the stored one
  kept,           \* history: slots whose last change was stored whole
  sets, failures  \* what the bounds count

ram == <<entry, indexes, require_pin>>
nv == <<nv_entry, nv_indexes, nv_require_pin>>
accVars == <<ram, nv, kept, sets, failures>>

-----------------------------------------------------------------------------
(* The entries, and what is stored and loaded of one.                       *)

\* A user's array of credentials keeps what a longer list left in its tail.
User == [status: {"available", "occupied"}, uid: UniqueIds \cup {None},
         size: 0 .. PinsPerUser, pins: [1 .. PinsPerUser -> Pins \cup {0}]]
Pin == [status: {"available", "occupied"}, secret: Secrets \cup {None}]
Schedule == [available: BOOLEAN, data: Times \cup {None}]

NoUser == [status |-> "available", uid |-> None, size |-> 0,
           pins |-> [k \in 1 .. PinsPerUser |-> 0]]
NoPin == [status |-> "available", secret |-> None]
NoSchedule == [available |-> TRUE, data |-> None]

ASSUME NoneIsNoEntry == None \notin User \cup Pin \cup Schedule

Entry(t) == IF t = UserTable THEN User
            ELSE IF t = PinTable THEN Pin ELSE Schedule
Initial(t) == IF t = UserTable THEN NoUser
              ELSE IF t = PinTable THEN NoPin ELSE NoSchedule

\* SetUser copies the list over the first entries of the array.
CopyOver(pins, list) ==
  [k \in 1 .. PinsPerUser |-> IF k <= Len(list) THEN list[k] ELSE pins[k]]

\* User::Serialize packs size entries, and Deserialize unpacks them over an
\* array that InitializeUsers has cleared.
SerializedUser(u) ==
  [u EXCEPT !.pins = [k \in 1 .. PinsPerUser |-> IF k <= u.size THEN @[k]
                                                 ELSE 0]]
Serialized(t, e) == IF t = UserTable THEN SerializedUser(e) ELSE e

\* What GetUserInfo, GetCredential and the three Get...Schedule return.
ReadBack(t, e) == IF t \in Owners /\ e.available THEN None
                  ELSE Serialized(t, e)

-----------------------------------------------------------------------------
(* The lists of indexes.                                                    *)

\* A loop over a list, one short and right.
AllButLast(list) == {list[k] : k \in 1 .. Len(list) - 1}
InList(list) == {list[k] : k \in 1 .. Len(list)}
Known(t, i) == i \in InList(indexes[t])
Full(t, i) == ~Known(t, i) /\ Len(indexes[t]) >= Capacity(t)

\* Without and with the test for a duplicate.
AddAgain(t, i) == IF Len(indexes[t]) >= Capacity(t) THEN indexes[t]
                  ELSE Append(indexes[t], i)
AddIndex(t, i) == IF Known(t, i) \/ Full(t, i) THEN indexes[t]
                  ELSE Append(indexes[t], i)

-----------------------------------------------------------------------------
(* What a restart finds.                                                    *)

\* LoadUsersFromPersistentStorage and LoadSchedulesFromPersistentStorage skip
\* an index whose entry they cannot load.
LoadedEntry(t, i) ==
  IF i \in InList(nv_indexes[t]) /\ nv_entry[<<t, i>>] # None
    THEN nv_entry[<<t, i>>] ELSE Initial(t)

\* LoadCredentialsFromPersistentStorage deserialises the buffer all the same:
\* it holds the last credential that was loaded, or zeros.
Found(n) ==
  {k \in 1 .. n : nv_entry[<<PinTable, nv_indexes[PinTable][k]>>] # None}
LastFound(n) == CHOOSE k \in Found(n) : \A j \in Found(n) : j <= k
Buffer(n) == IF Found(n) = {} THEN NoPin
             ELSE nv_entry[<<PinTable, nv_indexes[PinTable][LastFound(n)]>>]
Position(i) == CHOOSE n \in 1 .. Len(nv_indexes[PinTable]) :
                 nv_indexes[PinTable][n] = i

\* Without and with the load of the entry itself.
LoadedBefore(i) == IF i \notin InList(nv_indexes[PinTable]) THEN NoPin
                   ELSE Buffer(Position(i) - 1)
LoadedPin(i) == IF i \notin InList(nv_indexes[PinTable]) THEN NoPin
                ELSE Buffer(Position(i))

Loaded(t, i) == IF t = PinTable THEN LoadedPin(i) ELSE LoadedEntry(t, i)

\* The lists are loaded even where an entry is not.
LoadedIndexes(t) == nv_indexes[t]

-----------------------------------------------------------------------------
AccTypeOK ==
  /\ entry \in [Slots -> User \cup Pin \cup Schedule]
  /\ nv_entry \in [Slots -> User \cup Pin \cup Schedule \cup {None}]
  /\ \A s \in Slots : /\ entry[s] \in Entry(s[1])
                      /\ nv_entry[s] \in Entry(s[1]) \cup {None}
  /\ indexes \in [Tables -> Seq(Nat)]
  /\ nv_indexes \in [Tables -> Seq(Nat)]
  /\ require_pin \in BOOLEAN
  /\ nv_require_pin \in BOOLEAN \cup {None}
  /\ kept \subseteq Slots
  /\ sets \in 0 .. Sets
  /\ failures \in 0 .. Failures

AccInit ==
  /\ entry = [s \in Slots |-> Initial(s[1])]
  /\ nv_entry = [s \in Slots |-> None]
  /\ indexes = [t \in Tables |-> <<>>]
  /\ nv_indexes = [t \in Tables |-> <<>>]
  /\ require_pin = FALSE
  /\ nv_require_pin = None
  /\ kept = {}
  /\ sets = 0
  /\ failures = 0

-----------------------------------------------------------------------------
(* The setters.                                                             *)

\* Which stores succeed: both, the entry's only, or none.
Outcomes == {"stored", "entry", "nothing"}
Outcome(o) == /\ o \in Outcomes
              /\ o = "stored" \/ failures < Failures
              /\ failures' = failures + (IF o = "stored" THEN 0 ELSE 1)

\* A setter's call is counted, and touches require_pin no more.
Called == /\ sets < Sets
          /\ sets' = sets + 1

\* The entry changes in RAM; unless its list is full, the index is added and
\* the entry stored, and after the entry the list.
ChangeEntry(t, i, e, o) ==
  /\ Called
  /\ Outcome(o)
  /\ entry' = [entry EXCEPT ![<<t, i>>] = e]
  /\ indexes' = [indexes EXCEPT ![t] = AddIndex(t, i)]
  /\ IF ~Full(t, i) /\ o # "nothing"
       THEN nv_entry' = [nv_entry EXCEPT ![<<t, i>>] = Serialized(t, e)]
       ELSE UNCHANGED nv_entry
  /\ IF ~Full(t, i) /\ o = "stored"
       THEN /\ nv_indexes' = [nv_indexes EXCEPT ![t] = AddIndex(t, i)]
            /\ kept' = kept \cup {<<t, i>>}
       ELSE /\ UNCHANGED nv_indexes
            /\ kept' = kept \ {<<t, i>>}
  /\ UNCHANGED <<require_pin, nv_require_pin>>

\* SetUser, of a user or, with an empty list, to clear one.
SetUser(i, uid, list, o) ==
  LET old == entry[<<UserTable, i>>]
  IN /\ uid = None => list = <<>>
     /\ ChangeEntry(UserTable, i,
          [status |-> IF uid = None THEN "available" ELSE "occupied",
           uid |-> uid, size |-> Len(list),
           pins |-> CopyOver(old.pins, list)], o)

\* GetCredentialUserId: the first user whose array has the index, tail and all.
Holders(i) == {u \in Users : \E k \in 1 .. PinsPerUser :
                               entry[<<UserTable, u>>].pins[k] = i}
HasUser(i) == Holders(i) # {}
UserOf(i) == CHOOSE u \in Holders(i) : \A v \in Holders(i) : u <= v
GetCredentialUserId(i) ==
  IF HasUser(i) THEN <<entry[<<UserTable, UserOf(i)>>].uid>> ELSE <<>>

\* SetCredential: an empty secret clears the old one if a user has the PIN.
SetCredential(i, secret, o) ==
  LET old == entry[<<PinTable, i>>]
  IN ChangeEntry(PinTable, i,
       [status |-> IF secret = None THEN "available" ELSE "occupied",
        secret |-> IF secret # None \/ HasUser(i) THEN secret
                   ELSE old.secret], o)

\* Set...Schedule: it writes the data whatever the status asked for, unless it
\* clears a schedule that there is.
SetSchedule(t, i, data, o) ==
  /\ t \in Owners
  /\ data # None \/ entry[<<t, i>>].available
  /\ ChangeEntry(t, i, [available |-> FALSE, data |-> data], o)

\* To clear one, only the entry is removed from storage: its index stays.
ClearSchedule(t, i, removed) ==
  /\ t \in Owners
  /\ ~entry[<<t, i>>].available
  /\ Called
  /\ Outcome(IF removed THEN "stored" ELSE "nothing")
  /\ entry' = [entry EXCEPT ![<<t, i>>] = NoSchedule]
  /\ IF removed
       THEN /\ nv_entry' = [nv_entry EXCEPT ![<<t, i>>] = None]
            /\ kept' = kept \cup {<<t, i>>}
       ELSE /\ UNCHANGED nv_entry
            /\ kept' = kept \ {<<t, i>>}
  /\ UNCHANGED <<indexes, nv_indexes, require_pin, nv_require_pin>>

\* SetRequirePIN stores a value only when it changes.
SetRequirePIN(require, o) ==
  /\ require # require_pin
  /\ Called
  /\ o # "entry" /\ Outcome(o)
  /\ require_pin' = require
  /\ nv_require_pin' = IF o = "stored" THEN require ELSE nv_require_pin
  /\ UNCHANGED <<entry, indexes, nv_entry, nv_indexes, kept>>

-----------------------------------------------------------------------------
(* Boot.                                                                    *)

\* Init: RAM is new, and what is stored is loaded.
Restart ==
  /\ entry' = [s \in Slots |-> Loaded(s[1], s[2])]
  /\ indexes' = [t \in Tables |-> LoadedIndexes(t)]
  /\ require_pin' = (nv_require_pin = TRUE)
  /\ UNCHANGED <<nv, kept, sets, failures>>

\* The storage is erased, the RAM cleared, and the device reboots; "pin_req"
\* has a key of its own, which the reset of "cr" may leave.
FactoryReset ==
  /\ nv_entry' = [s \in Slots |-> None]
  /\ nv_indexes' = [t \in Tables |-> <<>>]
  /\ nv_require_pin' \in {None, nv_require_pin}
  /\ entry' = [s \in Slots |-> Initial(s[1])]
  /\ indexes' = [t \in Tables |-> <<>>]
  /\ require_pin' = (nv_require_pin' = TRUE)
  /\ kept' = {}
  /\ UNCHANGED <<sets, failures>>

-----------------------------------------------------------------------------
SetWeekDaySchedule(t, i, data, o) == t \in Week /\ SetSchedule(t, i, data, o)
SetYearDaySchedule(t, i, data, o) == t \in Year /\ SetSchedule(t, i, data, o)
SetHolidaySchedule(t, i, data, o) ==
  t \in Holiday /\ SetSchedule(t, i, data, o)
ClearWeekDay(t, i, removed) == t \in Week /\ ClearSchedule(t, i, removed)
ClearYearDay(t, i, removed) == t \in Year /\ ClearSchedule(t, i, removed)
ClearHoliday(t, i, removed) == t \in Holiday /\ ClearSchedule(t, i, removed)

\* The lists of credentials of a user, of distinct PINs.
PinLists == {l \in UNION {[1 .. n -> Pins] : n \in 0 .. PinsPerUser} :
               \A j, k \in DOMAIN l : l[j] = l[k] => j = k}

Setter(o) ==
  \/ \E i \in Users, uid \in UniqueIds \cup {None}, list \in PinLists :
       SetUser(i, uid, list, o)
  \/ \E i \in Pins, secret \in Secrets \cup {None} :
       SetCredential(i, secret, o)
  \/ \E t \in Owners, i \in 1 .. MaxSchedules, data \in Times \cup {None} :
       \/ SetWeekDaySchedule(t, i, data, o)
       \/ SetYearDaySchedule(t, i, data, o)
       \/ SetHolidaySchedule(t, i, data, o)
  \/ \E require \in BOOLEAN : SetRequirePIN(require, o)

Clearer(removed) ==
  \E t \in Owners, i \in 1 .. MaxSchedules :
    \/ ClearWeekDay(t, i, removed)
    \/ ClearYearDay(t, i, removed)
    \/ ClearHoliday(t, i, removed)

AccNext == \/ \E o \in Outcomes : Setter(o)
           \/ \E removed \in BOOLEAN : Clearer(removed)
           \/ Restart
           \/ FactoryReset

AccSpec == AccInit /\ [][AccNext]_accVars

-----------------------------------------------------------------------------
(* Properties.                                                              *)

\* The first PIN that matches, and the user it is reported to be of.
Matching(secret) == {i \in Pins : /\ entry[<<PinTable, i>>].status = "occupied"
                                  /\ entry[<<PinTable, i>>].secret = secret}
ValidatePIN(secret) ==
  LET pin == CHOOSE i \in Matching(secret) :
               \A j \in Matching(secret) : i <= j
  IN IF Matching(secret) = {} THEN <<>>
     ELSE <<pin>> \o GetCredentialUserId(pin)

\* Every list holds distinct indexes of its table, whatever stores fail and
\* whenever the power goes, so AddIndex never refuses one and no setter
\* returns false with the RAM changed and nothing stored.
ListFits(t, list) == /\ InList(list) \subseteq Index(t)
                     /\ \A j, k \in 1 .. Len(list) :
                          list[j] = list[k] => j = k
IndexListsFit == \A t \in Tables : /\ ListFits(t, indexes[t])
                                   /\ ListFits(t, nv_indexes[t])

\* What a setter has stored whole is what a restart reads back, whatever
\* happened to the other entries, their lists' stores and the power since.
KeptIsDurable ==
  \A s \in kept : ReadBack(s[1], Loaded(s[1], s[2])) = ReadBack(s[1], entry[s])

\* If every entry that was ever set is stored whole and no user's list of
\* credentials was made shorter, a restart changes neither which PINs are
\* accepted nor whom they are reported to be of.
AllKept == \A t \in Tables : \A i \in InList(indexes[t]) : <<t, i>> \in kept
NoTail == \A i \in Users : LET user == entry[<<UserTable, i>>]
                           IN \A k \in 1 .. PinsPerUser :
                                k > user.size => user.pins[k] = 0
RestartKeepsPins ==
  [][Restart /\ AllKept /\ NoTail =>
       \A secret \in Secrets : ValidatePIN(secret)' = ValidatePIN(secret)]_accVars
=============================================================================
