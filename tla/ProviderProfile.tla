-------------------------- MODULE ProviderProfile --------------------------
(***************************************************************************)
(* A provider's bank details: entered at onboarding, edited, encrypted at  *)
(* rest once the API has a key, and migrated by a script while the API     *)
(* runs (provider.service.ts, bank-details.util.ts,                        *)
(* field-encryption.util.ts, migrate-encrypt-bank-details.ts).             *)
(*                                                                         *)
(* The details are one value with two fields that are encrypted, account   *)
(* and ifsc; each is "plain", or "sealed" by encryptField.  A cipher text  *)
(* carries a random IV: no two are equal.  The schema converts ifscCode to *)
(* upper case whenever it is set, a cipher text too: it is then "garbled", *)
(* neither recognised as encrypted nor readable with the key.              *)
(***************************************************************************)
EXTENDS FiniteSets

CONSTANTS
  Owner,          \* users that may have a provider profile
  Details,        \* bank details that owners enter
  NoDetails,      \* null
  ProfileCall,    \* slots for handlers in flight
  NoOwner,        \* null
  Apart,          \* are an owner's calls and the migration kept apart?
  ProfileFaults   \* may a handler or the migration be cut off at an await?

ASSUME ProfileAssumption ==
  /\ NoDetails \notin Details
  /\ NoOwner \notin Owner
  /\ { Apart, ProfileFaults } \subseteq BOOLEAN

VARIABLES
  profiles,       \* the providers collection
  fleet,          \* the API's processes: do they have FIELD_ENCRYPTION_KEY?
  profileCalls,   \* what the handlers in flight hold
  migration,      \* the script
  confirmed       \* history: confirmed[o], the details last saved for o

profileVars == << profiles, fleet, profileCalls, migration, confirmed >>

Form == { "plain", "sealed", "garbled" }

Bank == [ details : Details, account : Form, ifsc : Form ]

NoBank == [ details |-> NoDetails, account |-> "plain", ifsc |-> "plain" ]

Profile == [ exists : BOOLEAN, bank : Bank \cup { NoBank } ]

NoProfile == [ exists |-> FALSE, bank |-> NoBank ]

Key == { "keyed", "unkeyed" }

ProfileCallState ==
  [ pc     : { "idle", "insert", "save" },
    own    : Owner \cup { NoOwner },
    key    : Key,                       \* of the process that runs it
    bank   : Bank \cup { NoBank },      \* bankDetails in memory
    dirty  : BOOLEAN ]                  \* has save() to write it?

IdleProfileCall ==
  [ pc |-> "idle", own |-> NoOwner, key |-> "keyed",
    bank |-> NoBank, dirty |-> FALSE ]

NoneLoaded == [o \in Owner |-> NoBank]

\* History: did this run begin when every process had the key, and has such
\* a run come to its end?
NotMigrated == [ running |-> FALSE, todo |-> {}, loaded |-> NoneLoaded,
                 keyed |-> FALSE, done |-> FALSE ]

ProfileInit ==
  /\ profiles = [o \in Owner |-> NoProfile]
  /\ fleet = { "unkeyed" }
  /\ profileCalls = [c \in ProfileCall |-> IdleProfileCall]
  /\ migration = NotMigrated
  /\ confirmed = [o \in Owner |-> NoDetails]

-----------------------------------------------------------------------------
(***************************************************************************)
(* Conversions                                                             *)
(***************************************************************************)
\* The request body: both fields as the owner typed them.
Submitted(d) == [ details |-> d, account |-> "plain", ifsc |-> "plain" ]

\* Mutated: the prefix is not looked at; one decryption is not enough then.
encryptField_Always(form) == IF form = "sealed" THEN "garbled" ELSE "sealed"

\* encryptField leaves what starts with its prefix alone; of anything else, a
\* garbled text included, it makes a cipher text.
encryptField(form) == "sealed"

encryptBankDetails(bank, key) ==
  IF bank = NoBank \/ key = "unkeyed" THEN bank
  ELSE [ bank EXCEPT !.account = encryptField(@), !.ifsc = encryptField(@) ]

\* The setters of bankDetailsSchema: ifscCode is upper-cased.
BankSetters(bank) == [ bank EXCEPT !.ifsc = IF @ = "sealed" THEN "garbled" ELSE @ ]

bankDetailsNeedsEncryption(bank) ==
  bank # NoBank /\ { bank.account, bank.ifsc } # { "sealed" }

\* Is bankDetails a modified path once it has been set?  A new cipher text
\* always differs from the one loaded.
Differs(bank, loaded) == bank # loaded \/ bank.account = "sealed"

-----------------------------------------------------------------------------
(***************************************************************************)
(* The owner's calls                                                       *)
(***************************************************************************)
ProfileCallAccepted(c, local) ==
  /\ profileCalls[c].pc = "idle"
  /\ Apart => ~ migration.running
  /\ local.key \in fleet
  /\ profileCalls' = [profileCalls EXCEPT ![c] = local]
  /\ UNCHANGED << profiles, fleet, migration, confirmed >>

\* When calls are kept apart, those of one owner are too, except that a new
\* owner may submit the form twice.
NoCallOf(o) == Apart => \A c \in ProfileCall : profileCalls[c].own # o

\* onboardProvider: the check, and the document about to be created.
OnboardProvider(c, o, d, key) ==
  /\ ~ profiles[o].exists
  /\ ProfileCallAccepted(c,
       [ pc |-> "insert", own |-> o, key |-> key, dirty |-> TRUE,
         bank |-> BankSetters(encryptBankDetails(Submitted(d), key)) ])

\* Mutated: a profile that is already there is replaced.
InsertProfile_Upsert(c) ==
  LET me == profileCalls[c] IN
  /\ me.pc = "insert"
  /\ profiles' = [profiles EXCEPT ![me.own] = [exists |-> TRUE, bank |-> me.bank]]
  /\ confirmed' = [confirmed EXCEPT ![me.own] =
                     IF profiles[me.own].exists THEN @ ELSE me.bank.details]
  /\ profileCalls' = [profileCalls EXCEPT ![c] = IdleProfileCall]
  /\ UNCHANGED << fleet, migration >>

\* The unique index on userId decides between two creations.
InsertProfile(c) ==
  LET me == profileCalls[c] IN
  /\ me.pc = "insert"
  /\ IF profiles[me.own].exists
     THEN UNCHANGED << profiles, confirmed >>
     ELSE /\ profiles' = [profiles EXCEPT ![me.own] =
                            [exists |-> TRUE, bank |-> me.bank]]
          /\ confirmed' = [confirmed EXCEPT ![me.own] = me.bank.details]
  /\ profileCalls' = [profileCalls EXCEPT ![c] = IdleProfileCall]
  /\ UNCHANGED << fleet, migration >>

\* updateMyProfile with bank details, which may be null.
UpdateMyProfile(c, o, d, key) ==
  LET new == IF d = NoDetails THEN NoBank ELSE Submitted(d)
      bank == BankSetters(encryptBankDetails(new, key)) IN
  /\ profiles[o].exists
  /\ NoCallOf(o)
  /\ ProfileCallAccepted(c,
       [ pc |-> "save", own |-> o, key |-> key, bank |-> bank,
         dirty |-> Differs(bank, profiles[o].bank) ])

\* Every other save of a profile: updateMyProfile without bank details,
\* updateAvailability, updateLocation, updateKycStatus.  The details in memory
\* are decrypted for the reply only after the save.
EditOtherFields(c, o, key) ==
  /\ profiles[o].exists
  /\ NoCallOf(o)
  /\ ProfileCallAccepted(c,
       [ pc |-> "save", own |-> o, key |-> key, bank |-> profiles[o].bank,
         dirty |-> FALSE ])

SaveProfile(c) ==
  LET me == profileCalls[c] IN
  /\ me.pc = "save"
  /\ profiles' = [profiles EXCEPT ![me.own].bank = IF me.dirty THEN me.bank ELSE @]
  /\ confirmed' = [confirmed EXCEPT ![me.own] = me.bank.details]
  /\ profileCalls' = [profileCalls EXCEPT ![c] = IdleProfileCall]
  /\ UNCHANGED << fleet, migration >>

-----------------------------------------------------------------------------
(***************************************************************************)
(* The key reaches the API, one process after the other: the handlers of   *)
(* the processes without it are gone with the last of them.                *)
(***************************************************************************)
DeployKey ==
  /\ fleet = { "unkeyed" }
  /\ fleet' = Key
  /\ UNCHANGED << profiles, profileCalls, migration, confirmed >>

RetireUnkeyed ==
  /\ fleet = Key
  /\ fleet' = { "keyed" }
  /\ profileCalls' = [c \in ProfileCall |->
       IF profileCalls[c].pc # "idle" /\ profileCalls[c].key = "unkeyed"
       THEN IdleProfileCall ELSE profileCalls[c]]
  /\ UNCHANGED << profiles, migration, confirmed >>

-----------------------------------------------------------------------------
(***************************************************************************)
(* migratePlaintextBankDetails: every profile with bank details is loaded  *)
(* at once, then each that needs it is encrypted and saved in turn.        *)
(***************************************************************************)
MigrationLoad ==
  LET with == { o \in Owner : profiles[o].exists /\ profiles[o].bank # NoBank } IN
  /\ ~ migration.running
  /\ Apart => \A c \in ProfileCall : profileCalls[c].pc = "idle"
  /\ migration' = [ migration EXCEPT !.running = TRUE, !.todo = with,
                      !.keyed = fleet = { "keyed" },
                      !.loaded = [o \in Owner |-> IF o \in with
                                    THEN profiles[o].bank ELSE NoBank] ]
  /\ UNCHANGED << profiles, fleet, profileCalls, confirmed >>

MigrationSave(o) ==
  LET bank == migration.loaded[o] IN
  /\ migration.running /\ o \in migration.todo
  /\ profiles' = IF bankDetailsNeedsEncryption(bank)
                 THEN [profiles EXCEPT ![o].bank =
                         BankSetters(encryptBankDetails(bank, "keyed"))]
                 ELSE profiles
  /\ migration' = [ migration EXCEPT !.todo = @ \ { o }, !.loaded[o] = NoBank ]
  /\ UNCHANGED << fleet, profileCalls, confirmed >>

MigrationEnds ==
  /\ migration.running /\ migration.todo = {}
  /\ migration' = [ migration EXCEPT !.running = FALSE, !.keyed = FALSE,
                                  !.done = @ \/ migration.keyed ]
  /\ UNCHANGED << profiles, fleet, profileCalls, confirmed >>

\* A save is rejected, or the script is killed.  It may be run again.
MigrationFails ==
  /\ ProfileFaults
  /\ migration.running
  /\ migration' = [ NotMigrated EXCEPT !.done = migration.done ]
  /\ UNCHANGED << profiles, fleet, profileCalls, confirmed >>

-----------------------------------------------------------------------------
AbandonProfileCall(c) ==
  /\ ProfileFaults
  /\ profileCalls[c].pc # "idle"
  /\ profileCalls' = [profileCalls EXCEPT ![c] = IdleProfileCall]
  /\ UNCHANGED << profiles, fleet, migration, confirmed >>

ProfileNext ==
  \/ \E c \in ProfileCall :
       \/ \E o \in Owner, key \in Key :
            \/ \E d \in Details : OnboardProvider(c, o, d, key)
            \/ \E d \in Details \cup { NoDetails } : UpdateMyProfile(c, o, d, key)
            \/ EditOtherFields(c, o, key)
       \/ InsertProfile(c) \/ SaveProfile(c) \/ AbandonProfileCall(c)
  \/ DeployKey \/ RetireUnkeyed
  \/ MigrationLoad \/ MigrationEnds \/ MigrationFails
  \/ \E o \in Owner : MigrationSave(o)

ProfileSpec == ProfileInit /\ [][ProfileNext]_profileVars

-----------------------------------------------------------------------------
(***************************************************************************)
(* Properties                                                              *)
(***************************************************************************)
\* Documents, handlers and the script's locals have the shapes of
\* provider.schema.ts and provider.service.ts.
ProfileTypeOK ==
  /\ profiles \in [Owner -> Profile]
  /\ fleet \in { { "unkeyed" }, Key, { "keyed" } }
  /\ profileCalls \in [ProfileCall -> ProfileCallState]
  /\ migration \in [ running : BOOLEAN, keyed : BOOLEAN, done : BOOLEAN,
                     todo : SUBSET Owner, loaded : [Owner -> Bank \cup { NoBank }] ]
  /\ confirmed \in [Owner -> Details \cup { NoDetails }]

\* Once a migration that began when every process had the key has run to its
\* end, no account number is stored in the clear, whatever edits and
\* onboardings ran beside it, and however often it was cut off and run again
\* (docs/MIGRATION-P1-SECURITY.md:80-93, provider.service.ts:203-219).
NothingInTheClear ==
  migration.done =>
    \A o \in Owner :
      profiles[o].bank # NoBank => profiles[o].bank.account # "plain"

\* An account number can always be read back with the key: it is never
\* encrypted twice, although the migration encrypts the same profiles at every
\* run because of their IFSC codes (field-encryption.util.ts:15,
\* bank-details.util.ts:64-73).
AccountReadable == \A o \in Owner : profiles[o].bank.account # "garbled"

\* Account numbers are encrypted, and once only: both of the above, whatever
\* races the migration (provider.service.ts:203-219).
BankDetailsSafe == ProfileTypeOK /\ NothingInTheClear /\ AccountReadable

\* With an owner's edits and the migration kept apart, what is stored is what
\* the owner was last told is stored, through the roll-out of the key, aborted
\* migrations and a form submitted twice (provider.service.ts:60-119, 203-219).
ConfirmedIsStored ==
  \A o \in Owner : profiles[o].bank.details = confirmed[o]

\* So can an IFSC code, once the key is set (docs/MIGRATION-P1-SECURITY.md:80,
\* provider.schema.ts:58).
IfscReadable == \A o \in Owner : profiles[o].bank.ifsc # "garbled"

=============================================================================
