------------------------------- MODULE KeyStore -------------------------------
(***************************************************************************)
(* The list of domains that may request sessions: CVMWebCrypto reads it    *)
(* from two files, which it downloads when they are missing, older than a  *)
(* day, or changed, and the threads of requestSafeSession() look their     *)
(* page's domain up in it.  Every instance of the plugin has a list in its *)
(* memory; all share the files, and nothing is locked.                     *)
(***************************************************************************)
EXTENDS Naturals

CONSTANTS
    Plugins,      \* instances of the plugin
    Requesters,   \* threads of requestSafeSession()
    MaxVersion    \* bound: versions of the list that are published

ASSUME StoreAssumption == MaxVersion \in Nat \ {0}

VARIABLES
    published,    \* the version on the server
    storeFiles,   \* the list, its signature, and whether the list is younger than a day
    keystore,     \* each instance: its CVMWebCrypto
    requester,    \* each thread: its instance, where it is and what it was told
    met           \* history: two threads have been in updateAuthorizedKeystore() at once

storeVars == <<published, storeFiles, keystore, requester, met>>

\* A file is missing, holds one version as it was published, or anything else:
\* the part of a download that failed, an answer of the server that is no list.
NoFile == 0
Whole == 1 .. MaxVersion
Torn == MaxVersion + 1
Contents == {NoFile, Torn} \cup Whole

\* Before it is read the map in memory is empty.
Unread == NoFile

StoreSteps == {"rest", "check", "invalidate", "look", "recheck", "openKeys", "getKeys", "openSig",
               "getSig", "verify", "clear", "read", "stamp", "set", "judge", "find", "validate"}

\* keystoreTimestamp is 0, that of the file, or another one.  found is history:
\* domainKeys was read without a look at the signature.
Cryptos == [valid : BOOLEAN, domainKeys : Contents, keystoreTimestamp : {"0", "same", "other"},
            found : BOOLEAN]

\* failed is history: its update did not end well.
RequesterRecords == [plugin : Plugins, step : StoreSteps, failed : BOOLEAN,
                     told : {"nothing", "trusted", "notValidated", "notTrusted", "misread"}]

StoreTypeOK ==
    /\ published \in Whole
    /\ storeFiles \in [keys : Contents, signature : Contents, fresh : BOOLEAN]
    /\ keystore \in [Plugins -> Cryptos]
    /\ requester \in [Requesters -> RequesterRecords]
    /\ met \in BOOLEAN

NewCrypto == [valid |-> FALSE, domainKeys |-> Unread, keystoreTimestamp |-> "0", found |-> FALSE]

StoreInit ==
    /\ published = 1
    /\ storeFiles = [keys |-> NoFile, signature |-> NoFile, fresh |-> FALSE]
    /\ keystore = [p \in Plugins |-> NewCrypto]
    /\ requester \in [Requesters -> {r \in RequesterRecords :
                                        r.step = "rest" /\ ~r.failed /\ r.told = "nothing"}]
    /\ met = FALSE

Mine(t) == keystore[requester[t].plugin]

InUpdate(t) == requester[t].step \notin {"rest", "check", "judge", "find", "validate"}

StoreGo(t, from, to) ==
    /\ requester[t].step = from
    /\ requester' = [requester EXCEPT ![t].step = to]

\* The update ends with an error, which the thread does not look at.
UpdateFails(t) == requester' = [requester EXCEPT ![t] = [@ EXCEPT !.step = "judge", !.failed = TRUE]]

Told(t, word) == [requester EXCEPT ![t] = [@ EXCEPT !.step = "rest", !.told = word]]

Tells(t, word) == requester' = Told(t, word)

SetCrypto(t, crypto) == keystore' = [keystore EXCEPT ![requester[t].plugin] = crypto]

-----------------------------------------------------------------------------
(* updateAuthorizedKeystore().                                             *)

requestSession(t) ==
    /\ requester[t].step = "rest"
    /\ requester' = [requester EXCEPT ![t] = [@ EXCEPT !.step = "check", !.failed = FALSE,
                                                       !.told = "nothing"]]
    /\ UNCHANGED <<published, storeFiles, keystore, met>>

\* lastUpdateTimestamp is always 0: a valid list is never too old.
CheckRecent(t) ==
    /\ StoreGo(t, "check", IF Mine(t).valid THEN "judge" ELSE "invalidate")
    /\ met' = (met \/ (~Mine(t).valid /\ \E u \in Requesters \ {t} : InUpdate(u)))
    /\ UNCHANGED <<published, storeFiles, keystore>>

Invalidate(t) ==
    /\ StoreGo(t, "invalidate", "look")
    /\ SetCrypto(t, [Mine(t) EXCEPT !.valid = FALSE])
    /\ UNCHANGED <<published, storeFiles, met>>

\* Files that are there and young need no signature the first time, and later
\* only when they have changed.
LookAtFiles(t) ==
    /\ LET young == storeFiles.keys # NoFile /\ storeFiles.signature # NoFile /\ storeFiles.fresh
           changed == Mine(t).keystoreTimestamp = "other"
       IN /\ StoreGo(t, "look", IF ~young THEN "openKeys" ELSE IF changed THEN "recheck" ELSE "clear")
          /\ SetCrypto(t, [Mine(t) EXCEPT !.found = young /\ ~changed])
    /\ UNCHANGED <<published, storeFiles, met>>

\* Mutated form of SignatureFits: the signature is not compared.
SignatureThere == storeFiles.keys # NoFile /\ storeFiles.signature # NoFile

\* validateSignature()
SignatureFits == storeFiles.keys \in Whole /\ storeFiles.signature = storeFiles.keys

RecheckFiles(t) ==
    /\ StoreGo(t, "recheck", IF SignatureFits THEN "clear" ELSE "openKeys")
    /\ UNCHANGED <<published, storeFiles, keystore, met>>

\* The file is written: for all that have read it, its time is another one,
\* unless it is still the same second.
KeysWritten(content) ==
    /\ storeFiles' = [storeFiles EXCEPT !.keys = content, !.fresh = TRUE]
    /\ \E sameSecond \in BOOLEAN :
          keystore' = [p \in Plugins |->
              IF keystore[p].keystoreTimestamp = "same" /\ ~sameSecond
              THEN [keystore[p] EXCEPT !.keystoreTimestamp = "other"] ELSE keystore[p]]

\* The download truncates the file, or finds the provider's stream in use.
OpenKeys(t) ==
    /\ requester[t].step = "openKeys"
    /\ \/ KeysWritten(Torn) /\ StoreGo(t, "openKeys", "getKeys")
       \/ UpdateFails(t) /\ UNCHANGED <<storeFiles, keystore>>
    /\ UNCHANGED <<published, met>>

\* Whatever the server has answered, the download succeeds.
GetKeys(t) ==
    /\ StoreGo(t, "getKeys", "openSig")
    /\ \E content \in {published, Torn} : KeysWritten(content)
    /\ UNCHANGED <<published, met>>

OpenSignature(t) ==
    /\ requester[t].step = "openSig"
    /\ \/ /\ storeFiles' = [storeFiles EXCEPT !.signature = Torn]
          /\ StoreGo(t, "openSig", "getSig")
       \/ UpdateFails(t) /\ UNCHANGED storeFiles
    /\ UNCHANGED <<published, keystore, met>>

GetSignature(t) ==
    /\ StoreGo(t, "getSig", "verify")
    /\ \E content \in {published, Torn} : storeFiles' = [storeFiles EXCEPT !.signature = content]
    /\ UNCHANGED <<published, keystore, met>>

\* Files that do not fit stay where they are.
VerifyFiles(t) ==
    /\ requester[t].step = "verify"
    /\ IF SignatureFits THEN StoreGo(t, "verify", "clear") ELSE UpdateFails(t)
    /\ UNCHANGED <<published, storeFiles, keystore, met>>

\* loadMap() empties the map ...
ClearMap(t) ==
    /\ StoreGo(t, "clear", "read")
    /\ SetCrypto(t, [Mine(t) EXCEPT !.domainKeys = Unread])
    /\ UNCHANGED <<published, storeFiles, met>>

\* ... and fills it.
ReadMap(t) ==
    /\ StoreGo(t, "read", "stamp")
    /\ SetCrypto(t, [Mine(t) EXCEPT !.domainKeys = storeFiles.keys])
    /\ UNCHANGED <<published, storeFiles, met>>

StampMap(t) ==
    /\ StoreGo(t, "stamp", "set")
    /\ SetCrypto(t, [Mine(t) EXCEPT !.keystoreTimestamp = "same"])
    /\ UNCHANGED <<published, storeFiles, met>>

MarkValid(t) ==
    /\ StoreGo(t, "set", "judge")
    /\ SetCrypto(t, [Mine(t) EXCEPT !.valid = TRUE])
    /\ UNCHANGED <<published, storeFiles, met>>

-----------------------------------------------------------------------------
(* requestSafeSession_thread().                                            *)

\* The answer of the update is not looked at, its flag is.
JudgeStore(t) ==
    /\ requester[t].step = "judge"
    /\ IF Mine(t).valid THEN StoreGo(t, "judge", "find") ELSE Tells(t, "notValidated")
    /\ UNCHANGED <<published, storeFiles, keystore, met>>

\* The page's domain is in every version, and may be in a torn list.
Lookup(t, next) ==
    \/ /\ Mine(t).domainKeys \in Whole \cup {Torn}
       /\ requester' = next
    \/ Mine(t).domainKeys = Torn /\ Tells(t, "notTrusted")
    \/ Mine(t).domainKeys = Unread /\ Tells(t, "misread")

\* isDomainValid()
FindDomain(t) ==
    /\ requester[t].step = "find"
    /\ Lookup(t, [requester EXCEPT ![t].step = "validate"])
    /\ UNCHANGED <<published, storeFiles, keystore, met>>

\* signatureValidate() looks for the domain again, after the page's server has
\* answered.
ValidateData(t) ==
    /\ requester[t].step = "validate"
    /\ Lookup(t, Told(t, "trusted"))
    /\ UNCHANGED <<published, storeFiles, keystore, met>>

-----------------------------------------------------------------------------

\* A version is published.
PublishList ==
    /\ published < MaxVersion
    /\ published' = published + 1
    /\ UNCHANGED <<storeFiles, keystore, requester, met>>

\* A day passes.
DayPasses ==
    /\ storeFiles.fresh
    /\ storeFiles' = [storeFiles EXCEPT !.fresh = FALSE]
    /\ UNCHANGED <<published, keystore, requester, met>>

\* The process of an instance ends, its threads with it, and the page is opened
\* again.
Reopen(p) ==
    /\ keystore' = [keystore EXCEPT ![p] = NewCrypto]
    /\ requester' = [t \in Requesters |->
                        IF requester[t].plugin = p
                        THEN [requester[t] EXCEPT !.step = "rest", !.failed = FALSE, !.told = "nothing"]
                        ELSE requester[t]]
    /\ UNCHANGED <<published, storeFiles, met>>

InRequest(t) ==
    \/ requestSession(t) \/ CheckRecent(t) \/ Invalidate(t) \/ LookAtFiles(t) \/ RecheckFiles(t)
    \/ OpenKeys(t) \/ GetKeys(t) \/ OpenSignature(t) \/ GetSignature(t) \/ VerifyFiles(t)
    \/ ClearMap(t) \/ ReadMap(t) \/ StampMap(t) \/ MarkValid(t)
    \/ JudgeStore(t) \/ FindDomain(t) \/ ValidateData(t)

StoreNext ==
    \/ PublishList \/ DayPasses
    \/ \E p \in Plugins : Reopen(p)
    \/ \E t \in Requesters : InRequest(t)

StoreSpec == StoreInit /\ [][StoreNext]_storeVars

-----------------------------------------------------------------------------

\* While no two updates meet, the list in use is one whose signature was looked
\* at, and every page of a listed domain is served unless its own update has
\* failed.  One exception: the first update of an instance takes files that are
\* young as they are, also what a failed update has left there.
KeysVouched ==
    met \/
    /\ \A p \in Plugins :
          keystore[p].valid => keystore[p].found \/ keystore[p].domainKeys \in Whole
    /\ \A t \in Requesters :
          /\ requester[t].told # "misread"
          /\ requester[t].told = "notValidated" => requester[t].failed
          /\ requester[t].told = "notTrusted" => Mine(t).found
=============================================================================
