------------------------------ MODULE Callers ------------------------------
(***************************************************************************)
(* Whom a request is answered as.  A self-hosted instance reads a key file *)
(* that its operators edit by hand or with a tool, and reads it again when *)
(* its modification time changes.  On the platform a person names an       *)
(* organization, and the platform's list of members is asked and believed  *)
(* for a while.                                                            *)
(***************************************************************************)
EXTENDS Naturals, FiniteSets, Functions

CONSTANTS
  KeyIds,         \* the ids of the entries of the file
  Operators,      \* the processes that edit the file with the tool
  Asking,         \* the people who choose an organization, one request each at a time
  Chosen,         \* the organizations they choose
  MembershipTTL,  \* MEMBERSHIP_TTL_S
  MaxFileEdits,   \* bound: times the file is replaced
  LastMinute      \* bound: the clock of the process

CallersAssumption ==
  /\ IsFiniteSet(KeyIds) /\ MembershipTTL \in Nat \ {0}
  /\ MaxFileEdits \in Nat /\ LastMinute \in Nat \ {0}

VARIABLES keyFile, mtime, goodSets, tools, server, overtaken,
          members, leftAt, asked, confirmed, minute

fileVars == <<keyFile, mtime, goodSets, tools, server, overtaken>>
memberVars == <<members, leftAt, asked, confirmed, minute>>
callersVars == <<keyFile, mtime, goodSets, tools, server, overtaken,
                 members, leftAt, asked, confirmed, minute>>

-----------------------------------------------------------------------------
(* The key file: its entries, or what a bad edit makes of it. *)

EntrySets == [KeyIds -> {"absent", "active", "disabled"}]
NoEntries == [k \in KeyIds |-> "absent"]
File(is, entries) == [is |-> is, entries |-> entries]
Files == {File("ok", e) : e \in EntrySets} \cup {File("malformed", NoEntries), File("missing", NoEntries)}
Parsed(content) == content.is = "ok"

\* os.replace: the file is another one at once; a load that has read sees nothing of it.
FileReplaced(content) ==
  /\ mtime < MaxFileEdits
  /\ keyFile' = content /\ mtime' = mtime + 1
  /\ goodSets' = IF Parsed(content) THEN goodSets \cup {content.entries} ELSE goodSets
  /\ overtaken' = (overtaken \/ server.phase = "read")

HandEdit(content) ==
  /\ content # keyFile /\ FileReplaced(content)
  /\ UNCHANGED <<tools, server, memberVars>>

NoEdit == [verb |-> "none"]

\* A malformed file ends the tool with an error.
ToolReads(o, verb, key) ==
  /\ tools[o] = NoEdit /\ keyFile.is # "malformed"
  /\ (verb = "new") <=> (keyFile.entries[key] = "absent")
  /\ tools' = [tools EXCEPT ![o] = [verb |-> verb, key |-> key, entries |-> keyFile.entries]]
  /\ UNCHANGED <<keyFile, mtime, goodSets, server, overtaken, memberVars>>

ToolWrites(o) ==
  /\ tools[o] # NoEdit
  /\ FileReplaced(File("ok", [tools[o].entries EXCEPT ![tools[o].key] =
                             IF tools[o].verb = "new" THEN "active" ELSE "disabled"]))
  /\ tools' = [tools EXCEPT ![o] = NoEdit]
  /\ UNCHANGED <<server, memberVars>>

\* _maybe_reload: an unreadable file and an unchanged one are left at that.
Stats ==
  /\ server.phase = "serving" /\ keyFile.is # "missing" /\ mtime # server.mtime
  /\ server' = [server EXCEPT !.phase = "changed", !.seen = mtime]
  /\ UNCHANGED <<keyFile, mtime, goodSets, tools, overtaken, memberVars>>

\* mutant: the modification time of a failed load is looked up after it
GivenUpLater(s) == [s EXCEPT !.phase = "failed"]

\* The same broken file is not tried on every request.
GivenUp(s) == [s EXCEPT !.phase = "serving", !.mtime = s.seen]

\* load, first half: the entries are replaced whole or not at all.
Loads ==
  /\ server.phase = "changed"
  /\ server' = IF Parsed(keyFile) THEN [server EXCEPT !.phase = "read", !.keys = keyFile.entries]
               ELSE GivenUp(server)
  /\ overtaken' = (overtaken /\ ~Parsed(keyFile))
  /\ UNCHANGED <<keyFile, mtime, goodSets, tools, memberVars>>

\* load, second half: the time is that of the file that is there now.
StatsAgain ==
  /\ server.phase \in {"read", "failed"}
  /\ server' = IF keyFile.is = "missing" THEN GivenUp(server)
               ELSE [server EXCEPT !.phase = "serving", !.mtime = mtime]
  /\ UNCHANGED <<keyFile, mtime, goodSets, tools, overtaken, memberVars>>

\* A process starts with the file loaded, or does not start.
ServiceStarts ==
  /\ server.phase = "serving" /\ Parsed(keyFile)
  /\ server' = [phase |-> "read", keys |-> keyFile.entries, mtime |-> server.mtime, seen |-> mtime]
  /\ overtaken' = FALSE
  /\ UNCHANGED <<keyFile, mtime, goodSets, tools, memberVars>>

\* lookup: the entry a presented key grants.
Granted(key) == server.keys[key] = "active"

-----------------------------------------------------------------------------
(* Membership of an organization. *)

NotAsked == [phase |-> "idle"]
Never == 0

\* Believed already, the request goes on; otherwise the platform is asked.
Asks(p, org) ==
  /\ asked[p] = NotAsked /\ confirmed[<<p, org>>] <= minute
  /\ asked' = [asked EXCEPT ![p] = [phase |-> "sent", org |-> org, at |-> minute]]
  /\ UNCHANGED <<fileVars, members, leftAt, confirmed, minute>>

PlatformLists(p) ==
  /\ asked[p].phase = "sent"
  /\ asked' = [asked EXCEPT ![p] =
       [phase |-> "listed", org |-> asked[p].org, at |-> asked[p].at,
        yes |-> <<p, asked[p].org>> \in members]]
  /\ UNCHANGED <<fileVars, members, leftAt, confirmed, minute>>

\* Timed from before the platform was asked.
Believed(p) == asked[p].at + MembershipTTL

IsTold(p) ==
  /\ asked[p].phase = "listed"
  /\ confirmed' = IF asked[p].yes
                  THEN [confirmed EXCEPT ![<<p, asked[p].org>>] = Believed(p)] ELSE confirmed
  /\ asked' = [asked EXCEPT ![p] = NotAsked]
  /\ UNCHANGED <<fileVars, members, leftAt, minute>>

\* The platform does not answer, or refuses: the request fails, nothing is kept.
AskFails(p) ==
  /\ asked[p].phase = "sent"
  /\ asked' = [asked EXCEPT ![p] = NotAsked]
  /\ UNCHANGED <<fileVars, members, leftAt, confirmed, minute>>

\* The platform's own changes.
JoinsOrLeaves(p, org) ==
  /\ IF <<p, org>> \in members
     THEN members' = members \ {<<p, org>>} /\ leftAt' = [leftAt EXCEPT ![<<p, org>>] = minute]
     ELSE members' = members \cup {<<p, org>>} /\ UNCHANGED leftAt
  /\ UNCHANGED <<fileVars, asked, confirmed, minute>>

MinutePasses ==
  /\ minute < LastMinute /\ minute' = minute + 1
  /\ UNCHANGED <<fileVars, members, leftAt, asked, confirmed>>

-----------------------------------------------------------------------------
CallersInit ==
  /\ keyFile = File("ok", NoEntries) /\ mtime = 0 /\ goodSets = {NoEntries}
  /\ tools = [o \in Operators |-> NoEdit]
  /\ server = [phase |-> "serving", keys |-> NoEntries, mtime |-> 0, seen |-> 0]
  /\ overtaken = FALSE
  /\ members = {} /\ leftAt = [m \in Asking \X Chosen |-> Never]
  /\ asked = [p \in Asking |-> NotAsked]
  /\ confirmed = [m \in Asking \X Chosen |-> Never] /\ minute = 1

KeyFileNext ==
  \/ \E c \in Files : HandEdit(c)
  \/ \E o \in Operators : ToolWrites(o) \/ \E k \in KeyIds, v \in {"new", "revoke"} : ToolReads(o, v, k)
  \/ Stats \/ Loads \/ StatsAgain \/ ServiceStarts

MembershipNext ==
  \/ \E p \in Asking : \/ PlatformLists(p) \/ IsTold(p) \/ AskFails(p)
                       \/ \E org \in Chosen : Asks(p, org) \/ JoinsOrLeaves(p, org)
  \/ MinutePasses

CallersNext == KeyFileNext \/ MembershipNext

CallersSpec == CallersInit /\ [][CallersNext]_callersVars

CallersTypeOK ==
  /\ keyFile \in Files
  /\ mtime \in 0..MaxFileEdits /\ overtaken \in BOOLEAN
  /\ server.phase \in {"serving", "changed", "read", "failed"} /\ server.mtime <= mtime
  /\ members \subseteq Asking \X Chosen /\ minute \in 1..LastMinute

\* The keys served are the file's, unless a file took the place of the one being
\* loaded; a file that does not parse changes nothing.
KeysAreTheFiles ==
  /\ server.keys \in goodSets
  /\ server.phase = "serving" /\ server.mtime = mtime /\ Parsed(keyFile) /\ ~overtaken
       => \A k \in KeyIds : Granted(k) <=> keyFile.entries[k] = "active"

\* Who is believed to be a member is one, or was within the time.
MembersAreRecent ==
  \A m \in Asking \X Chosen :
    confirmed[m] > minute => m \in members \/ leftAt[m] + MembershipTTL > minute

(* Whom requests are answered as follows the key file and the platform's    *)
(* list, as late as the two caches allow and no later                       *)
(* (core/api_keys.py:96-116, api/deps.py:161-190).                          *)
CallersAreCurrent == KeysAreTheFiles /\ MembersAreRecent
=============================================================================
