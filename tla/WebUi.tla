-------------------------------- MODULE WebUi --------------------------------
(* The page of the eth_call Sandbox (crates/snapshot-web/ui/src/main.ts) and   *)
(* the executor it keeps in step with: the list of accounts, the ABI panel and *)
(* its localStorage, the call form.  Each handler of the page is split at its  *)
(* awaits: what runs between two of them is one action.                        *)
(*                                                                             *)
(* The client and its worker are the ordered settle-once service of            *)
(* RequestService, whose worker may fail once and for all.  A text typed or    *)
(* saved is an ABI the executor parses or one it does not.                     *)
EXTENDS Naturals, Sequences, FiniteSets, Functions, Bags, BagsExt

CONSTANTS Addresses, None,    \* lower-case addresses; the empty value of a control
          New,                \* NEW_ADDRESS_VALUE
          Abis, Unparsable,   \* ABI texts the executor accepts, and refuses
          Saved,              \* what earlier sessions may have left in localStorage
          Loads,              \* lists of files a user may drop; a file is a set of addresses
          MaxCalls            \* bound on the calls a session makes

ASSUME UiAssumption ==
    /\ {None, New} \cap (Addresses \cup Abis \cup Unparsable) = {} /\ None # New
    /\ Addresses \cap (Abis \cup Unparsable) = {} /\ Abis \cap Unparsable = {}
    /\ Saved \subseteq [Addresses -> Abis \cup Unparsable \cup {None}]
    /\ \A files \in Loads : files # <<>> /\ files \in Seq(SUBSET Addresses)
    /\ MaxCalls \in Nat

VARIABLES
    accounts, options, target,            \* the keys of the account map, the target control
    abiAddress, abiAddressNew, abiJson,   \* the ABI panel
    descriptions, shown,                  \* abiDescriptions; the ABI the form shows
    executing, result,                    \* the call form
    store,                                \* localStorage
    reading,                              \* a bag of loads, each waiting for a file's bytes
    requests, answers, calls,             \* calls under way; how many were made
    loaded, installed,                    \* the executor's accounts and ABIs
    unavailable,                          \* the client has given the worker up
    unsaved                               \* history: the ABI accepted but not stored

pageVars == <<accounts, options, target>>
panelVars == <<abiAddress, abiAddressNew, abiJson>>
formVars == <<executing, result>>
workerVars == <<loaded, installed, unavailable>>
vars == <<pageVars, panelVars, descriptions, shown, formVars, store, reading,
          requests, answers, calls, workerVars, unsaved>>

-----------------------------------------------------------------------------
(* Calls *)

Texts == Abis \cup Unparsable

Call(kind, address, json) ==
    [kind |-> kind, address |-> address, json |-> json,
     files |-> <<>>, outputs |-> None, settled |-> FALSE]

\* Calls settle in order: those the worker has performed, then those it has not.
Underway == [i \in DOMAIN answers |-> answers[i].call] \o requests

Request(call) ==
    /\ calls < MaxCalls /\ calls' = calls + 1
    /\ requests' = Append(requests, call)
NoRequest == UNCHANGED <<requests, calls>>

NoAbi == [address \in Addresses |-> None]

\* What was failed at once is handled before the next event.
EventMayCome == unavailable => requests = <<>> /\ answers = <<>>

AbiKinds == {"loadAbi", "saveAbi", "removeAbi"}

\* No answer about the ABI of an address is outstanding, nor did storing it fail.
AbiSettled(address) ==
    /\ unsaved[address] = None
    /\ \A call \in Range(Underway) : ~(call.kind \in AbiKinds /\ call.address = address)

-----------------------------------------------------------------------------
(* Parts of several handlers: panel, target and form *)

\* loadAbiForAddress, up to its await.
LoadAbiForAddress(address) ==
    /\ abiJson' = store[address]
    /\ IF store[address] = None
       THEN /\ descriptions' = [descriptions EXCEPT ![address] = None]
            /\ shown' = IF target' = None THEN None ELSE descriptions'[target']
            /\ NoRequest
       ELSE /\ Request(Call("loadAbi", address, store[address]))
            /\ UNCHANGED <<descriptions, shown>>

FocusAbiAddress(address) ==
    /\ abiAddress' = IF store[address] # None THEN address ELSE New
    /\ abiAddressNew' = IF store[address] # None THEN None ELSE address
    /\ LoadAbiForAddress(address)

RenderFunctions == shown' = IF target' = None THEN None ELSE descriptions'[target']

SelectTarget ==
    IF target' = None
    THEN RenderFunctions /\ NoRequest /\ UNCHANGED <<panelVars, descriptions>>
    ELSE FocusAbiAddress(target')

\* [defect] the target stays selected though its account is gone.
RebuildTargetsKeepingTarget ==
    /\ options' = accounts' /\ UNCHANGED target
    /\ SelectTarget

\* A target that is gone gives way to the first account of the map, whichever it is.
RebuildTargets ==
    /\ options' = accounts'
    /\ target' \in IF accounts' = {} THEN {None}
                   ELSE IF target \in accounts' THEN {target} ELSE accounts'
    /\ SelectTarget

\* AbiStore.list: what the ABI panel offers.
SavedAddresses == {address \in Addresses : store[address] # None}

ActiveAbiAddress == IF abiAddress = New THEN abiAddressNew ELSE abiAddress

-----------------------------------------------------------------------------
(* What the user does *)

LoadFiles(files) ==
    /\ reading' = BagAdd(reading, files)
    /\ UNCHANGED <<pageVars, panelVars, descriptions, shown, formVars, store, requests,
                   answers, calls, workerVars, unsaved>>

\* file.arrayBuffer() resolves, and the bytes go to the executor.
BytesRead(files) ==
    /\ EventMayCome
    /\ BagIn(files, reading) /\ reading' = BagRemove(reading, files)
    /\ Request([Call("addBatch", None, None) EXCEPT !.files = files])
    /\ UNCHANGED <<pageVars, panelVars, descriptions, shown, formVars, store, answers,
                   workerVars, unsaved>>

ClickRemoveSnapshot(address) ==
    /\ address \in accounts
    /\ Request(Call("removeSnapshot", address, None))
    /\ UNCHANGED <<pageVars, panelVars, descriptions, shown, formVars, store, reading,
                   answers, workerVars, unsaved>>

\* A value the control has no option for leaves it empty.
SelectContract(address) ==
    /\ address \in accounts
    /\ target' = IF address \in options THEN address ELSE None
    /\ FocusAbiAddress(address)
    /\ UNCHANGED <<accounts, options, formVars, store, reading, answers, workerVars, unsaved>>

PickTarget(address) ==
    /\ address \in options \ {target} /\ target' = address
    /\ SelectTarget
    /\ UNCHANGED <<accounts, options, formVars, store, reading, answers, workerVars, unsaved>>

\* onAbiAddressChange
PickAbiAddress(value) ==
    /\ value \in {None, New} \cup SavedAddresses
    /\ value # abiAddress
    /\ abiAddress' = value /\ abiAddressNew' = None
    /\ UNCHANGED pageVars
    /\ \/ /\ value = New /\ abiJson' = None
          /\ NoRequest /\ UNCHANGED <<descriptions, shown>>
       \/ /\ value = None /\ abiJson' = None
          /\ NoRequest /\ UNCHANGED descriptions /\ RenderFunctions
       \/ /\ value \in Addresses
          /\ LoadAbiForAddress(value)
    /\ UNCHANGED <<formVars, store, reading, answers, workerVars, unsaved>>

\* Typing in the panel: the address of a new contract, or the JSON.
EditPanel ==
    /\ \/ /\ abiAddress = New
          /\ abiAddressNew' \in Addresses /\ UNCHANGED abiJson
       \/ abiJson' \in Texts /\ UNCHANGED abiAddressNew
    /\ UNCHANGED <<pageVars, abiAddress, descriptions, shown, formVars, store, reading,
                   requests, answers, calls, workerVars, unsaved>>

ClickSaveAbi ==
    /\ ActiveAbiAddress # None /\ abiJson # None
    /\ Request(Call("saveAbi", ActiveAbiAddress, abiJson))
    /\ UNCHANGED <<pageVars, panelVars, descriptions, shown, formVars, store, reading,
                   answers, workerVars, unsaved>>

ClickRemoveAbi ==
    /\ ActiveAbiAddress \in SavedAddresses
    /\ Request(Call("removeAbi", ActiveAbiAddress, None))
    /\ UNCHANGED <<pageVars, panelVars, descriptions, shown, formVars, store, reading,
                   answers, workerVars, unsaved>>

\* execute, up to its await: the signature is the form's, the outputs are those
\* of the description.  settled notes whether the target's ABI was (history).
ClickExecute(raw) ==
    /\ ~executing /\ target # None
    /\ raw \/ shown # None
    /\ executing' = TRUE
    /\ Request([Call("execute", target, IF raw THEN None ELSE shown) EXCEPT
                   !.outputs = IF raw THEN None ELSE descriptions[target],
                   !.settled = AbiSettled(target)])
    /\ UNCHANGED <<pageVars, panelVars, descriptions, shown, result, store, reading, answers,
                   workerVars, unsaved>>

-----------------------------------------------------------------------------
(* The executor performs the oldest request.  It may refuse any: the document,  *)
(* the ABI or the call is no good, the address is none, the message could not   *)
(* be posted, dispatch throws, or the client is unavailable and refuses all.    *)
(* What is refused changes nothing.                                             *)

\* The answer says which ABI a call was made with.
Answer(call, ok) ==
    /\ ok => ~unavailable
    /\ answers' = Append(answers, [call |-> call, ok |-> ok,
        with |-> IF call.kind = "execute" THEN installed[call.address] ELSE None])

Perform ==
    /\ requests # <<>> /\ requests' = Tail(requests)
    /\ LET call == Head(requests)
           file == Head(call.files)
       IN \/ Answer(call, FALSE) /\ UNCHANGED workerVars
          \/ /\ call.kind = "addBatch" /\ file \cap loaded = {}
             /\ loaded' = loaded \cup file
             /\ Answer(call, TRUE) /\ UNCHANGED installed
          \/ /\ call.kind = "removeSnapshot" /\ call.address \in loaded
             /\ loaded' = loaded \ {call.address}
             /\ Answer(call, TRUE) /\ UNCHANGED installed
          \/ /\ call.kind \in {"loadAbi", "saveAbi"} /\ call.json \in Abis
             /\ installed' = [installed EXCEPT ![call.address] = call.json]
             /\ Answer(call, TRUE) /\ UNCHANGED loaded
          \/ /\ call.kind = "removeAbi"
             /\ installed' = [installed EXCEPT ![call.address] = None]
             /\ Answer(call, TRUE) /\ UNCHANGED loaded
          \/ /\ call.kind = "execute" /\ call.address \in loaded
             /\ call.json = None \/ installed[call.address] # None
             /\ Answer(call, TRUE) /\ UNCHANGED workerVars
    /\ UNCHANGED <<pageVars, panelVars, descriptions, shown, formVars, store, reading, calls,
                   unavailable, unsaved>>

\* markUnavailable: every call under way fails, those the worker has performed
\* too.  Nothing more is heard of it, and what it holds is lost.
WorkerFails ==
    /\ ~unavailable /\ unavailable' = TRUE
    /\ loaded' = {} /\ installed' = NoAbi
    /\ answers' = [i \in DOMAIN Underway |-> [call |-> Underway[i], ok |-> FALSE, with |-> None]]
    /\ requests' = <<>> /\ unsaved' = NoAbi
    /\ UNCHANGED <<pageVars, panelVars, descriptions, shown, formVars, store, reading, calls>>

-----------------------------------------------------------------------------
(* Handlers resumed by the answer at the head *)

Resumed(kind, ok) ==
    /\ answers # <<>> /\ Head(answers).call.kind = kind /\ Head(answers).ok = ok
    /\ answers' = Tail(answers)

\* [defect] what a refused file may have added is dropped with it.
BatchAnsweredDroppingAll ==
    \/ /\ Resumed("addBatch", FALSE)
       /\ accounts' = {} /\ UNCHANGED reading
       /\ RebuildTargets
    \/ /\ Resumed("addBatch", TRUE)
       /\ accounts' = accounts \cup Head(Head(answers).call.files)
       /\ UNCHANGED reading /\ RebuildTargets

\* The rest of loadFiles: stop at the first refused file, keep what was loaded.
BatchAnswered ==
    \/ /\ Resumed("addBatch", FALSE)
       /\ UNCHANGED <<accounts, reading>>
       /\ RebuildTargets
    \/ /\ Resumed("addBatch", TRUE)
       /\ LET files == Head(answers).call.files
          IN /\ accounts' = accounts \cup Head(files)
             /\ IF Tail(files) = <<>>
                THEN UNCHANGED reading /\ RebuildTargets
                ELSE /\ reading' = BagAdd(reading, Tail(files))
                     /\ NoRequest
                     /\ UNCHANGED <<options, target, panelVars, descriptions, shown>>

RemovedSnapshot ==
    /\ Resumed("removeSnapshot", TRUE)
    /\ accounts' = accounts \ {Head(answers).call.address}
    /\ RebuildTargets
    /\ UNCHANGED reading

NothingToRemove ==
    /\ Resumed("removeSnapshot", FALSE)
    /\ NoRequest
    /\ UNCHANGED <<pageVars, panelVars, descriptions, shown, reading>>

AccountsAnswered ==
    /\ BatchAnswered \/ RemovedSnapshot \/ NothingToRemove
    /\ UNCHANGED <<formVars, store, workerVars, unsaved>>

\* [defect] the form is not drawn again when the description arrives.
LoadedAbiNotRendered ==
    /\ \E ok \in BOOLEAN : Resumed("loadAbi", ok)
    /\ LET call == Head(answers).call  ok == Head(answers).ok
       IN /\ descriptions' = [descriptions EXCEPT ![call.address] = IF ok THEN call.json ELSE None]
          /\ unsaved' = IF ok THEN [unsaved EXCEPT ![call.address] = None] ELSE unsaved
    /\ UNCHANGED <<panelVars, store, shown>>

\* The rest of loadAbiForAddress.
LoadedAbi ==
    /\ \E ok \in BOOLEAN : Resumed("loadAbi", ok)
    /\ LET call == Head(answers).call  ok == Head(answers).ok
       IN /\ descriptions' = [descriptions EXCEPT ![call.address] = IF ok THEN call.json ELSE None]
          /\ unsaved' = IF ok THEN [unsaved EXCEPT ![call.address] = None] ELSE unsaved
    /\ UNCHANGED <<panelVars, store>> /\ RenderFunctions

\* [defect] the text is stored before the executor has accepted it.
SavedAbiUnchecked ==
    /\ \E ok \in BOOLEAN : Resumed("saveAbi", ok)
    /\ LET call == Head(answers).call
       IN store' = [store EXCEPT ![call.address] = call.json]
    /\ UNCHANGED <<panelVars, descriptions, shown, unsaved>>

\* The rest of saveAbi.  setItem throws when the browser's quota is used up,
\* after the executor has taken the ABI and before the page has.
SavedAbi ==
    \/ /\ Resumed("saveAbi", FALSE)
       /\ UNCHANGED <<store, panelVars, descriptions, shown, unsaved>>
    \/ /\ Resumed("saveAbi", TRUE)
       /\ LET call == Head(answers).call
          IN unsaved' = [unsaved EXCEPT ![call.address] = call.json]
       /\ UNCHANGED <<store, panelVars, descriptions, shown>>
    \/ /\ Resumed("saveAbi", TRUE)
       /\ LET call == Head(answers).call
          IN /\ store' = [store EXCEPT ![call.address] = call.json]
             /\ descriptions' = [descriptions EXCEPT ![call.address] = call.json]
             /\ unsaved' = [unsaved EXCEPT ![call.address] = None]
             /\ abiAddress' = call.address
             /\ IF target = call.address THEN RenderFunctions ELSE UNCHANGED shown
       /\ abiAddressNew' = None /\ UNCHANGED abiJson

\* [defect] the description of a removed ABI stays.
RemovedAbiKeepingForm ==
    /\ Resumed("removeAbi", TRUE)
    /\ LET address == Head(answers).call.address
       IN /\ store' = [store EXCEPT ![address] = None]
          /\ unsaved' = [unsaved EXCEPT ![address] = None]
    /\ abiJson' = None /\ abiAddress' = None /\ UNCHANGED <<abiAddressNew, descriptions, shown>>

\* The rest of removeAbi.
RemovedAbi ==
    \/ /\ Resumed("removeAbi", FALSE)
       /\ UNCHANGED <<store, panelVars, descriptions, shown, unsaved>>
    \/ /\ Resumed("removeAbi", TRUE)
       /\ LET address == Head(answers).call.address
          IN /\ store' = [store EXCEPT ![address] = None]
             /\ descriptions' = [descriptions EXCEPT ![address] = None]
             /\ unsaved' = [unsaved EXCEPT ![address] = None]
       /\ abiJson' = None /\ abiAddress' = None /\ UNCHANGED abiAddressNew
       /\ RenderFunctions

AbiAnswered ==
    /\ NoRequest /\ UNCHANGED <<pageVars, formVars, reading, workerVars>>
    /\ LoadedAbi \/ SavedAbi \/ RemovedAbi

\* [defect] a refused call leaves the form busy.
ExecutedStayingBusy ==
    /\ \E ok \in BOOLEAN : Resumed("execute", ok)
    /\ executing' = ~Head(answers).ok
    /\ UNCHANGED <<result, pageVars, panelVars, descriptions, shown, store, reading, requests,
                   calls, workerVars, unsaved>>

\* The rest of execute: the result is shown under the outputs captured before.
Executed ==
    /\ \E ok \in BOOLEAN : Resumed("execute", ok)
    /\ executing' = FALSE
    /\ result' = IF Head(answers).ok THEN {Head(answers)} ELSE {}
    /\ UNCHANGED <<pageVars, panelVars, descriptions, shown, store, reading, requests,
                   calls, workerVars, unsaved>>

-----------------------------------------------------------------------------

Init ==
    /\ accounts = {} /\ options = {} /\ target = None
    /\ abiAddress = None /\ abiAddressNew = None /\ abiJson = None
    /\ descriptions = NoAbi /\ shown = None
    /\ executing = FALSE /\ result = {}
    /\ store \in Saved
    /\ reading = EmptyBag /\ requests = <<>> /\ answers = <<>> /\ calls = 0
    /\ loaded = {} /\ installed = NoAbi /\ unavailable = FALSE /\ unsaved = NoAbi

\* The user is done when the calls of the session are made or files will make them.
UserInput ==
    /\ calls + BagCardinality(reading) < MaxCalls /\ EventMayCome
    /\ \/ \E files \in Loads : LoadFiles(files)
       \/ \E address \in Addresses :
             ClickRemoveSnapshot(address) \/ SelectContract(address) \/ PickTarget(address)
       \/ \E value \in Addresses \cup {None, New} : PickAbiAddress(value)
       \/ EditPanel \/ ClickSaveAbi \/ ClickRemoveAbi
       \/ \E raw \in BOOLEAN : ClickExecute(raw)

AnswerHandled == AccountsAnswered \/ AbiAnswered \/ Executed

Next ==
    \/ UserInput
    \/ \E files \in BagToSet(reading) : BytesRead(files)
    \/ Perform \/ WorkerFails \/ AnswerHandled

Spec == Init /\ [][Next]_vars

-----------------------------------------------------------------------------
(* Properties *)

CallSet ==
    [kind : AbiKinds \cup {"addBatch", "removeSnapshot", "execute"},
     address : Addresses \cup {None}, json : Texts \cup {None},
     files : Seq(SUBSET Addresses), outputs : Abis \cup {None}, settled : BOOLEAN]
AnswerSet == [call : CallSet, ok : BOOLEAN, with : Abis \cup {None}]

\* Types; the target is a loaded account or empty, and so are its options.
TypeOK ==
    /\ accounts \subseteq Addresses /\ options \subseteq accounts
    /\ target \in options \cup {None}
    /\ abiAddress \in Addresses \cup {None, New} /\ abiAddressNew \in Addresses \cup {None}
    /\ abiJson \in Texts \cup {None}
    /\ descriptions \in [Addresses -> Abis \cup {None}] /\ shown \in Abis \cup {None}
    /\ executing \in BOOLEAN
    /\ store \in [Addresses -> Texts \cup {None}]
    /\ \A files \in BagToSet(reading) : files # <<>> /\ files \in Seq(SUBSET Addresses)
    /\ requests \in Seq(CallSet) /\ answers \in Seq(AnswerSet) /\ result \subseteq AnswerSet
    /\ calls \in 0..MaxCalls /\ loaded \subseteq Addresses
    /\ installed \in [Addresses -> Abis \cup {None}]
    /\ unavailable \in BOOLEAN /\ unsaved \in [Addresses -> Abis \cup {None}]

\* Once the answers about accounts are in, the page lists exactly the accounts
\* the executor holds, while there is one, though loads of several files and removals overlap and a
\* load may stop half way (main.ts:110-133, 177-186).
AccountsMirrored ==
    \/ unavailable
    \/ \E answer \in Range(answers) : answer.call.kind \in {"addBatch", "removeSnapshot"}
    \/ accounts = loaded

\* A description the page holds is that of the ABI the executor holds, once the
\* answers about it are in.  Where storing an accepted ABI failed, the page may hold
\* an older one, but then the executor holds just the ABI that could not be stored:
\* no other difference hides behind the failure (main.ts:257-276, 301-344).
DescribedIsInstalled ==
    \A address \in Addresses :
        \/ descriptions[address] \in {None, installed[address]}
        \/ unsaved[address] # None /\ installed[address] = unsaved[address]
        \/ unavailable
        \/ \E answer \in Range(answers) :
              answer.call.kind \in AbiKinds /\ answer.call.address = address

\* A call made while nothing about its target's ABI was outstanding is encoded
\* and decoded with the ABI whose function the form showed, and its values are
\* shown under that ABI's outputs (main.ts:395-438).
ExecutedAsShown ==
    \A answer \in result :
        answer.call.settled /\ answer.call.json # None =>
            answer.with = answer.call.json /\ answer.call.outputs = answer.call.json

\* The form is busy exactly while its one call is under way: whatever the answer
\* and whatever else is clicked, it neither stays busy nor starts a second call
\* (main.ts:395-449), nor when the worker fails under it (client.ts:74-82).
BusyWhileCalling ==
    LET executes == {i \in DOMAIN Underway : Underway[i].kind = "execute"}
    IN /\ executing <=> executes # {}
       /\ \A i, j \in executes : i = j

\* Only validated ABI text is persisted (index.html:97).  A saved text is given up
\* only once the executor has dropped the ABI: never with a worker that failed.
OnlyValidatedPersisted ==
    [][\A address \in Addresses :
          /\ store'[address] \in {store[address], None} \cup Abis
          /\ unavailable => store' = store]_vars

\* What is in force for an address at rest is what is saved for it
\* (index.html:46 and main.ts:269).
AtRest == requests = <<>> /\ answers = <<>> /\ unsaved = NoAbi
InForceIsSaved ==
    AtRest => \A address \in Addresses : descriptions[address] \in {None, store[address]}

===============================================================================
