--------------------------- MODULE PermissionsPy ---------------------------
(***************************************************************************)
(* vaidcord-py permissions: the effective permissions of one member in one *)
(* channel, while roles, overwrites, the timeout and the ownership of the  *)
(* guild are edited.  A Permissions bit field is the set of its flags:     *)
(* has is \subseteq, add is \cup, remove is \.                             *)
(***************************************************************************)
EXTENDS Naturals

CONSTANTS
    Perms,         \* the flags of Permissions
    Administrator, View, ReadHistory,
    DefaultPerms,  \* Permissions.default()
    Roles,         \* roles of the guild other than @everyone
    Everyone,      \* the id of the guild: its @everyone role and overwrite
    Member,        \* the id of the member
    MaxEdits       \* bound: edits

ASSUME PermissionConstants ==
    /\ {Administrator, View, ReadHistory} \subseteq Perms
    /\ Administrator \notin {View, ReadHistory}
    /\ DefaultPerms \subseteq Perms /\ Administrator \notin DefaultPerms
    /\ Everyone \notin Roles /\ Member \notin Roles /\ Everyone # Member
    /\ MaxEdits \in Nat

Targets == Roles \cup {Everyone, Member}

VARIABLES
    owner,       \* guild.is_owner(member)
    timed_out,   \* member.is_timed_out()
    role_perms,  \* role.permissions, also of @everyone
    listed,      \* guild.get_role(guild.id) finds @everyone
    roles,       \* member.roles
    present,     \* the ids that have an overwrite in the channel
    allow, deny, \* PermissionOverwrite.allow and .deny
    edits        \* edits so far

permissionVars == <<owner, timed_out, role_perms, listed, roles, present, allow, deny, edits>>

PermissionsInit ==
    /\ owner = FALSE /\ timed_out = FALSE
    /\ role_perms = [r \in Roles \cup {Everyone} |-> {}]
    /\ listed \in BOOLEAN
    /\ roles = {} /\ present = {}
    /\ allow = [t \in Targets |-> {}] /\ deny = [t \in Targets |-> {}]
    /\ edits = 0

-----------------------------------------------------------------------------
(* PermissionCalculator.                                                   *)

FromRolesOne == IF roles = {} THEN {} ELSE role_perms[CHOOSE r \in roles : TRUE]
FromRoles == UNION {role_perms[r] : r \in roles}

(* compute_base_permissions up to the administrator's bypass.              *)
Granted == (IF listed THEN role_perms[Everyone] ELSE DefaultPerms) \cup FromRoles

compute_base_permissions ==
    IF owner \/ Administrator \in Granted THEN Perms
    ELSE IF timed_out THEN {View, ReadHistory} ELSE Granted

(* An overwrite removes what it denies and then adds what it allows.       *)
Overwritten(perms, denied, allowed) == (perms \ denied) \cup allowed

Of(field, ids) == UNION {field[t] : t \in ids \cap present}

compute_overwritesMemberFirst(base) ==
    IF Administrator \in base THEN Perms
    ELSE LET e == Overwritten(base, Of(deny, {Everyone}), Of(allow, {Everyone}))
             m == Overwritten(e, Of(deny, {Member}), Of(allow, {Member}))
         IN  Overwritten(m, Of(deny, roles), Of(allow, roles))
compute_overwrites(base) ==
    IF Administrator \in base THEN Perms
    ELSE LET e == Overwritten(base, Of(deny, {Everyone}), Of(allow, {Everyone}))
             r == Overwritten(e, Of(deny, roles), Of(allow, roles))
         IN  Overwritten(r, Of(deny, {Member}), Of(allow, {Member}))

compute_effective_permissions == compute_overwrites(compute_base_permissions)

-----------------------------------------------------------------------------
(* PermissionOverwrite, and the edits of the guild that come by events.    *)

Edit == edits < MaxEdits /\ edits' = edits + 1
UnchangedByOverwrites == UNCHANGED <<owner, timed_out, role_perms, listed, roles>>

(* PermissionOverwrite() for an id that has none.                          *)
Creates(t) == present' = present \cup {t}

set_allow(t, ps) ==
    /\ Edit /\ Creates(t)
    /\ allow' = [allow EXCEPT ![t] = @ \cup ps]
    /\ deny' = [deny EXCEPT ![t] = @ \ ps]
    /\ UnchangedByOverwrites

set_deny(t, ps) ==
    /\ Edit /\ Creates(t)
    /\ deny' = [deny EXCEPT ![t] = @ \cup ps]
    /\ allow' = [allow EXCEPT ![t] = @ \ ps]
    /\ UnchangedByOverwrites

reset(t, ps) ==
    /\ Edit /\ t \in present
    /\ allow' = [allow EXCEPT ![t] = @ \ ps]
    /\ deny' = [deny EXCEPT ![t] = @ \ ps]
    /\ UNCHANGED present /\ UnchangedByOverwrites

UnchangedByGuild == UNCHANGED <<listed, present, allow, deny>>

EditRole(r, ps) ==
    /\ Edit /\ role_perms' = [role_perms EXCEPT ![r] = ps]
    /\ UNCHANGED <<owner, timed_out, roles>> /\ UnchangedByGuild

GiveRole(r) ==
    /\ Edit /\ r \notin roles /\ roles' = roles \cup {r}
    /\ UNCHANGED <<owner, timed_out, role_perms>> /\ UnchangedByGuild

TakeRole(r) ==
    /\ Edit /\ r \in roles /\ roles' = roles \ {r}
    /\ UNCHANGED <<owner, timed_out, role_perms>> /\ UnchangedByGuild

TimeOut ==
    /\ Edit /\ timed_out' = ~timed_out
    /\ UNCHANGED <<owner, role_perms, roles>> /\ UnchangedByGuild

TransferOwnership ==
    /\ Edit /\ owner' = ~owner
    /\ UNCHANGED <<timed_out, role_perms, roles>> /\ UnchangedByGuild

PermissionsNext ==
    \/ \E t \in Targets, p \in Perms : set_allow(t, {p}) \/ set_deny(t, {p}) \/ reset(t, {p})
    \/ \E r \in Roles \cup {Everyone}, ps \in SUBSET Perms : EditRole(r, ps)
    \/ \E r \in Roles : GiveRole(r) \/ TakeRole(r)
    \/ TimeOut \/ TransferOwnership

PermissionsSpec == PermissionsInit /\ [][PermissionsNext]_permissionVars

-----------------------------------------------------------------------------
(* Properties.                                                             *)

(* Every variable keeps its type; @everyone is no role of a member.        *)
PermissionsTypeOK ==
    /\ {owner, timed_out, listed} \subseteq BOOLEAN
    /\ role_perms \in [Roles \cup {Everyone} -> SUBSET Perms]
    /\ roles \subseteq Roles /\ present \subseteq Targets
    /\ allow \in [Targets -> SUBSET Perms] /\ deny \in [Targets -> SUBSET Perms]
    /\ edits \in 0 .. MaxEdits

(* No sequence of set_allow, set_deny and reset leaves a flag both allowed *)
(* and denied.                                                             *)
OverwritesDisjoint == \A t \in Targets : allow[t] \cap deny[t] = {}

(* The hierarchy that compute_overwrites documents, flag by flag: the      *)
(* overwrite of the member decides if it mentions the flag, else the       *)
(* overwrites of the roles, of which one that allows prevails, else that   *)
(* of @everyone, and what no overwrite mentions is as in the guild.  The   *)
(* owner and an administrator have everything.                             *)
NotDenied(p, ids) == \A t \in ids \cap present : p \notin deny[t]
Allowed(p, ids) == \E t \in ids \cap present : p \in allow[t]

Decision(p) ==
    \/ owner \/ Administrator \in Granted
    \/ Allowed(p, {Member})
    \/ NotDenied(p, {Member}) /\ Allowed(p, roles)
    \/ NotDenied(p, {Member} \cup roles) /\ Allowed(p, {Everyone})
    \/ NotDenied(p, {Member, Everyone} \cup roles) /\ p \in compute_base_permissions

EffectiveIsLayered ==
    \A p \in Perms : p \in compute_effective_permissions <=> Decision(p)

(* No sequence of edits leaves overwrites that contradict themselves or    *)
(* permissions other than those of the hierarchy.                          *)
PermissionsInv == PermissionsTypeOK /\ OverwritesDisjoint /\ EffectiveIsLayered

(* Giving a member a role that no overwrite of the channel restricts never *)
(* takes a flag away, also not from a member that is timed out.            *)
RoleTakesNothing ==
    [][\A r \in Roles :
         GiveRole(r) /\ (r \in present => deny[r] = {})
         => compute_effective_permissions \subseteq compute_effective_permissions']_permissionVars

(* permissions.py:392 says that timed out members only keep VIEW_CHANNEL   *)
(* and READ_MESSAGE_HISTORY.                                               *)
TimedOutIsMuted ==
    timed_out /\ ~owner /\ Administrator \notin Granted
    => compute_effective_permissions \subseteq {View, ReadHistory}
=============================================================================
