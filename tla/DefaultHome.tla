----------------------------- MODULE DefaultHome -----------------------------
(***************************************************************************)
(* The shared default home (DefaultHomeBuilderService): one snapshot for   *)
(* every profile, kept in Redis under two keys, its sections and the rails *)
(* marked show_with_reco, both named by a version that every edit of the   *)
(* templates bumps.  Servers share the keys, not their in-flight builds.   *)
(*                                                                         *)
(* The templates are named by how many edits they include; what a list     *)
(* source returns for them is left out.  Only the keys of the current      *)
(* version are kept: those of earlier versions are never read again.       *)
(***************************************************************************)
EXTENDS Naturals

CONSTANTS
    TemplateAdmin,   \* admin requests that edit a template
    DefaultBuilder,  \* reads of the default home in progress at once
    MaxEdits,        \* bound on edits and rebuild requests
    NoDefault

ASSUME DefaultHomeAssumption == NoDefault \notin Nat /\ MaxEdits \in Nat

VARIABLES
    dhTemplates,  \* home.default_list_templates
    dhVersion,    \* home:default:ver
    dhAdmin,      \* dhAdmin[a]: the edit whose bump a still owes, or 0
    dhSections,   \* templates in home:default:en:<dhVersion>
    dhMarked,     \* templates in home:default:marked:<dhVersion>
    dhBuilder,    \* dhBuilder[b]: step, version of its key, templates read
    dhBumped      \* the last edit that was bumped (observation)

dhSnapshot == <<dhSections, dhMarked>>
dhVars == <<dhTemplates, dhVersion, dhAdmin, dhSections, dhMarked, dhBuilder,
            dhBumped>>

Versions == 0..MaxEdits
Builder == [step : {"idle", "building", "read", "stored"}, key : Versions,
            saw : Versions]
IdleBuilder == [step |-> "idle", key |-> 0, saw |-> 0]

DhTypeOK ==
    /\ dhTemplates \in Versions
    /\ dhVersion \in Versions
    /\ dhAdmin \in [TemplateAdmin -> Versions]
    /\ dhSections \in Versions \cup {NoDefault}
    /\ dhMarked \in Versions \cup {NoDefault}
    /\ dhBuilder \in [DefaultBuilder -> Builder]
    /\ dhBumped \in Versions

DhInit ==
    /\ dhTemplates = 0
    /\ dhVersion = 0
    /\ dhAdmin = [a \in TemplateAdmin |-> 0]
    /\ dhSections = NoDefault
    /\ dhMarked = NoDefault
    /\ dhBuilder = [b \in DefaultBuilder |-> IdleBuilder]
    /\ dhBumped = 0

-----------------------------------------------------------------------------
\* Upsert, delete or show-with-reco: the row first, then the version.
DhEdit(a) ==
    /\ dhAdmin[a] = 0 /\ dhTemplates < MaxEdits
    /\ dhTemplates' = dhTemplates + 1
    /\ dhAdmin' = [dhAdmin EXCEPT ![a] = dhTemplates + 1]
    /\ UNCHANGED <<dhVersion, dhSnapshot, dhBuilder, dhBumped>>

\* INCR: the keys of the new version do not exist yet.
NextVersion ==
    /\ dhVersion < MaxEdits
    /\ dhVersion' = dhVersion + 1
    /\ dhSections' = NoDefault
    /\ dhMarked' = NoDefault

DhBump(a) ==
    /\ dhAdmin[a] # 0
    /\ NextVersion
    /\ dhAdmin' = [dhAdmin EXCEPT ![a] = 0]
    /\ dhBumped' = IF dhAdmin[a] > dhBumped THEN dhAdmin[a] ELSE dhBumped
    /\ UNCHANGED <<dhTemplates, dhBuilder>>

\* The request fails between the two and nothing repeats the bump.
DhAdminDies(a) ==
    /\ dhAdmin[a] # 0
    /\ dhAdmin' = [dhAdmin EXCEPT ![a] = 0]
    /\ UNCHANGED <<dhTemplates, dhVersion, dhSnapshot, dhBuilder, dhBumped>>

\* The rebuild endpoint bumps whatever the templates are.
DhRebuild ==
    /\ NextVersion
    /\ UNCHANGED <<dhTemplates, dhAdmin, dhBuilder, dhBumped>>

-----------------------------------------------------------------------------
\* getSharedDefault misses the sections, getMarkedSharedDefault either key;
\* the key is the one of the version read before the build.
DhMiss(b) ==
    /\ dhBuilder[b].step = "idle"
    /\ NoDefault \in {dhSections, dhMarked}
    /\ dhBuilder' = [dhBuilder EXCEPT ![b] =
                        [step |-> "building", key |-> dhVersion, saw |-> 0]]
    /\ UNCHANGED <<dhTemplates, dhVersion, dhAdmin, dhSnapshot, dhBumped>>

DhRead(b) ==
    /\ dhBuilder[b].step = "building"
    /\ dhBuilder' = [dhBuilder EXCEPT ![b].step = "read",
                                      ![b].saw = dhTemplates]
    /\ UNCHANGED <<dhTemplates, dhVersion, dhAdmin, dhSnapshot, dhBumped>>

DhStoreAtCurrent(b) ==   \* the version is read when the snapshot is stored (mutant)
    /\ dhBuilder[b].step = "read"
    /\ dhSections' = dhBuilder[b].saw
    /\ dhBuilder' = [dhBuilder EXCEPT ![b].step = "stored"]
    /\ UNCHANGED <<dhTemplates, dhVersion, dhAdmin, dhMarked, dhBumped>>

DhStore(b) ==
    /\ dhBuilder[b].step = "read"
    /\ dhSections' = IF dhBuilder[b].key = dhVersion THEN dhBuilder[b].saw
                     ELSE dhSections
    /\ dhBuilder' = [dhBuilder EXCEPT ![b].step = "stored"]
    /\ UNCHANGED <<dhTemplates, dhVersion, dhAdmin, dhMarked, dhBumped>>

DhStoreMarked(b) ==
    /\ dhBuilder[b].step = "stored"
    /\ dhMarked' = IF dhBuilder[b].key = dhVersion THEN dhBuilder[b].saw
                   ELSE dhMarked
    /\ dhBuilder' = [dhBuilder EXCEPT ![b] = IdleBuilder]
    /\ UNCHANGED <<dhTemplates, dhVersion, dhAdmin, dhSections, dhBumped>>

DhBuildFail(b) ==
    /\ dhBuilder[b].step # "idle"
    /\ dhBuilder' = [dhBuilder EXCEPT ![b] = IdleBuilder]
    /\ UNCHANGED <<dhTemplates, dhVersion, dhAdmin, dhSnapshot, dhBumped>>

\* The two keys expire apart, as they were set apart.
DhExpire ==
    /\ \/ dhSections' = NoDefault /\ UNCHANGED dhMarked
       \/ dhMarked' = NoDefault /\ UNCHANGED dhSections
    /\ UNCHANGED <<dhTemplates, dhVersion, dhAdmin, dhBuilder, dhBumped>>

DhNext ==
    \/ \E a \in TemplateAdmin : DhEdit(a) \/ DhBump(a) \/ DhAdminDies(a)
    \/ DhRebuild
    \/ \E b \in DefaultBuilder :
         \/ DhMiss(b) \/ DhRead(b) \/ DhStore(b) \/ DhStoreMarked(b)
         \/ DhBuildFail(b)
    \/ DhExpire

DhSpec == DhInit /\ [][DhNext]_dhVars

-----------------------------------------------------------------------------
\* What the current version serves, sections and marked rails, includes every
\* edit that was bumped, whichever builds of whichever servers stored them;
\* the two disagree only about edits whose bump is owed or was lost.
SnapshotOfVersion ==
    \A seen \in {dhSections, dhMarked} \ {NoDefault} :
        seen \in dhBumped..dhTemplates
==============================================================================
