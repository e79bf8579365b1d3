----------------------------- MODULE ApiRoutes -----------------------------
(***************************************************************************)
(* The endpoints of vaidcord-py/src/vaidcord/api_client.py, and those of   *)
(* the message service and the bot on top of it.  Every helper of          *)
(* APIClient is one HTTP method on one path; the path begins with a        *)
(* base that holds the major parameter Discord keys its rate limits with,  *)
(* and what follows either names one thing of that base or, with a further *)
(* parameter, one item of many (perItem).                                  *)
(***************************************************************************)
EXTENDS FiniteSets

Only(method, base, paths) ==
    {[method |-> method, base |-> base, path |-> p, perItem |-> FALSE] : p \in paths}
Each(method, base, paths) ==
    {[method |-> method, base |-> base, path |-> p, perItem |-> TRUE] : p \in paths}

Channel == "/channels/{channel_id}"
Guild == "/guilds/{guild_id}"
Application == "/applications/{application_id}"
Webhook == "/webhooks/{webhook_id}/{token}"
Me == "/users/@me"

MessageRoutes ==
    Only("GET", Channel, {"/messages", "/pins", "/messages/pins"})
    \cup Only("POST", Channel, {"/messages", "/messages/bulk-delete"})
    \cup Each("GET", Channel, {"/messages/{}", "/messages/{}/reactions/{}", "/polls/{}/answers/{}"})
    \cup Each("POST", Channel, {"/messages/{}/crosspost", "/polls/{}/expire"})
    \cup Each("PATCH", Channel, {"/messages/{}"})
    \cup Each("PUT", Channel, {"/messages/{}/reactions/{}/@me", "/pins/{}", "/messages/pins/{}"})
    \cup Each("DELETE", Channel,
           {"/messages/{}", "/messages/{}/reactions", "/messages/{}/reactions/{}",
            "/messages/{}/reactions/{}/@me", "/messages/{}/reactions/{}/{}", "/pins/{}",
            "/messages/pins/{}"})

ChannelRoutes ==
    Only("GET", Channel,
         {"", "/invites", "/threads/archived/public", "/threads/archived/private",
          "/users/@me/threads/archived/private"})
    \cup Only("POST", Channel, {"/typing", "/invites", "/followers", "/threads"})
    \cup Only("PATCH", Channel, {""})
    \cup Only("PUT", Channel, {"/thread-members/@me"})
    \cup Only("DELETE", Channel, {"", "/thread-members/@me"})
    \cup Each("POST", Channel, {"/messages/{}/threads"})
    \cup Each("PUT", Channel, {"/permissions/{}", "/thread-members/{}"})
    \cup Each("DELETE", Channel, {"/permissions/{}", "/thread-members/{}"})

GuildRoutes ==
    Only("GET", Guild,
         {"", "/preview", "/channels", "/roles", "/members", "/bans", "/emojis", "/stickers",
          "/scheduled-events"})
    \cup Only("POST", Guild, {"/roles", "/scheduled-events"})
    \cup Only("PATCH", Guild, {"/roles"})
    \cup Each("GET", Guild, {"/members/{}", "/bans/{}", "/scheduled-events/{}"})
    \cup Each("PUT", Guild, {"/members/{}", "/bans/{}"})
    \cup Each("PATCH", Guild, {"/roles/{}", "/members/{}", "/scheduled-events/{}"})
    \cup Each("DELETE", Guild, {"/roles/{}", "/members/{}", "/bans/{}", "/scheduled-events/{}"})

UserRoutes ==
    Only("GET", Me, {"", "/guilds", "/connections"})
    \cup Only("PATCH", Me, {""}) \cup Only("POST", Me, {"/channels"})
    \cup Each("GET", Me, {"/guilds/{}/member", "/applications/{}/role-connection"})
    \cup Each("PUT", Me, {"/applications/{}/role-connection"})
    \cup Each("DELETE", Me, {"/guilds/{}"})
    \cup Only("GET", "/users/{user_id}", {""})
    \cup Only("GET", "/invites/{invite_code}", {""})
    \cup Only("DELETE", "/invites/{invite_code}", {""})

WebhookRoutes ==
    Only("POST", Channel, {"/webhooks"})
    \cup Only("GET", Channel, {"/webhooks"}) \cup Only("GET", Guild, {"/webhooks"})
    \cup UNION {Only(m, b, {""}) : m \in {"GET", "PATCH", "DELETE"},
                                   b \in {"/webhooks/{webhook_id}", Webhook}}
    \cup Only("POST", Webhook, {""})
    \cup UNION {Each(m, Webhook, {"/messages/{}"}) : m \in {"GET", "PATCH", "DELETE"}}

CommandRoutes ==
    UNION {Only(m, Application, {"/commands"}) : m \in {"GET", "POST", "PUT"}}
    \cup UNION {Each(m, Application, {"/commands/{}"}) : m \in {"GET", "PATCH", "DELETE"}}
    \cup UNION {Each(m, Application, {"/guilds/{}/commands"}) : m \in {"GET", "POST", "PUT"}}

(* The token of an interaction is that of a webhook.                       *)
InteractionRoutes ==
    Only("POST", "/interactions/{interaction_id}/{token}", {"/callback"})
    \cup UNION {Only(m, Webhook, {"/messages/@original"}) : m \in {"GET", "PATCH", "DELETE"}}
    \cup Only("POST", Webhook, {""})
    \cup Each("PATCH", Webhook, {"/messages/{}"}) \cup Each("DELETE", Webhook, {"/messages/{}"})

EmojiRoutes ==
    Only("POST", Guild, {"/emojis"})
    \cup UNION {Each(m, Guild, {"/emojis/{}"}) : m \in {"GET", "PATCH", "DELETE"}}
    \cup Only("GET", Application, {"/emojis"}) \cup Only("POST", Application, {"/emojis"})
    \cup UNION {Each(m, Application, {"/emojis/{}"}) : m \in {"GET", "PATCH", "DELETE"}}

StickerRoutes ==
    Only("GET", "/stickers/{sticker_id}", {""})
    \cup Only("GET", "/sticker-packs", {""}) \cup Each("GET", "/sticker-packs", {"/{}"})
    \cup Only("POST", Guild, {"/stickers"})
    \cup UNION {Each(m, Guild, {"/stickers/{}"}) : m \in {"GET", "PATCH", "DELETE"}}

ModerationRoutes ==
    Only("GET", Guild, {"/auto-moderation/rules"}) \cup Only("POST", Guild, {"/auto-moderation/rules"})
    \cup UNION {Each(m, Guild, {"/auto-moderation/rules/{}"}) : m \in {"GET", "PATCH", "DELETE"}}
    \cup Only("POST", "/stage-instances", {""})
    \cup UNION {Each(m, "/stage-instances", {"/{}"}) : m \in {"GET", "PATCH", "DELETE"}}

MonetizationRoutes ==
    Only("GET", Application, {"/entitlements", "/skus"})
    \cup Only("POST", Application, {"/entitlements"})
    \cup Each("GET", Application, {"/entitlements/{}"})
    \cup Each("POST", Application, {"/entitlements/{}/consume"})
    \cup Each("DELETE", Application, {"/entitlements/{}"})
    \cup Only("GET", "/skus/{sku_id}", {"/subscriptions"})
    \cup Each("GET", "/skus/{sku_id}", {"/subscriptions/{}"})

SoundboardRoutes ==
    Only("GET", "/soundboard-default-sounds", {""})
    \cup Only("GET", Guild, {"/soundboard-sounds"}) \cup Only("POST", Guild, {"/soundboard-sounds"})
    \cup UNION {Each(m, Guild, {"/soundboard-sounds/{}"}) : m \in {"GET", "PATCH", "DELETE"}}
    \cup Only("POST", Channel, {"/send-soundboard-sound"})

GuildAdminRoutes ==
    Only("POST", "/guilds", {""})
    \cup Only("GET", Guild, {"/prune", "/regions", "/integrations", "/widget", "/widget.json",
                             "/vanity-url", "/welcome-screen", "/onboarding", "/audit-logs",
                             "/threads/active"})
    \cup Only("POST", Guild, {"/prune", "/mfa", "/bulk-ban"})
    \cup Only("PATCH", Guild, {"", "/widget", "/welcome-screen"})
    \cup Only("PUT", Guild, {"/onboarding"}) \cup Only("DELETE", Guild, {""})
    \cup Each("DELETE", Guild, {"/integrations/{}"})

MemberRoutes ==
    Only("GET", Guild, {"/members/search"}) \cup Only("PATCH", Guild, {"/members/@me"})
    \cup Each("GET", Guild, {"/roles/{}"})
    \cup Each("PUT", Guild, {"/members/{}/roles/{}"})
    \cup Each("DELETE", Guild, {"/members/{}/roles/{}"})

GuildCommandRoutes ==
    UNION {Each(m, Application, {"/guilds/{}/commands/{}"}) : m \in {"GET", "PATCH", "DELETE"}}
    \cup UNION {Each(m, Application, {"/guilds/{}/commands/permissions",
                                      "/guilds/{}/commands/{}/permissions"}) : m \in {"GET", "PUT"}}
    \cup Only("GET", "/applications/@me", {""}) \cup Only("PATCH", "/applications/@me", {""})
    \cup Only("GET", Application, {"/role-connections/metadata"})
    \cup Only("PUT", Application, {"/role-connections/metadata"})

ThreadRoutes ==
    Each("PUT", Channel, {"/recipients/{}"}) \cup Each("DELETE", Channel, {"/recipients/{}"})
    \cup Only("PATCH", Guild, {"/channels"})
    \cup Each("GET", Channel, {"/thread-members/{}"}) \cup Only("GET", Channel, {"/thread-members"})
    \cup Only("POST", Channel, {"/threads"})

VoiceRoutes ==
    Only("GET", "/voice/regions", {""})
    \cup Only("GET", Guild, {"/voice-states/@me"}) \cup Only("PATCH", Guild, {"/voice-states/@me"})
    \cup Each("GET", Guild, {"/voice-states/{}", "/scheduled-events/{}/users"})
    \cup Each("PATCH", Guild, {"/voice-states/{}"})

APIClientRoutes ==
    UNION {MessageRoutes, ChannelRoutes, GuildRoutes, UserRoutes, WebhookRoutes, CommandRoutes,
           InteractionRoutes, EmojiRoutes, StickerRoutes, ModerationRoutes, MonetizationRoutes,
           SoundboardRoutes, GuildAdminRoutes, MemberRoutes, GuildCommandRoutes, ThreadRoutes,
           VoiceRoutes}

(* MessageService is a second way to the message routes.  What sends a     *)
(* message (send_message and, through it, reply, send_components_v2,       *)
(* send_dm and send_poll) writes its own path; a DM first opens the        *)
(* channel.  Polls, reads, reactions and pins go through APIClient.  What  *)
(* is left out: the payloads and the bot's caches of users and channels.   *)
SendRoutes == Only("POST", Me, {"/channels"}) \cup Only("POST", Channel, {"/messages"})

PollAndMessageRoutes ==
    Only("POST", Channel, {"/messages", "/typing", "/messages/bulk-delete"})
    \cup Only("GET", Channel, {"/messages"})
    \cup Each("GET", Channel, {"/polls/{}/answers/{}", "/messages/{}"})
    \cup Each("POST", Channel, {"/polls/{}/expire", "/messages/{}/crosspost"})
    \cup Each("PATCH", Channel, {"/messages/{}"}) \cup Each("DELETE", Channel, {"/messages/{}"})

ReactionAndPinRoutes ==
    Only("GET", Channel, {"/pins", "/messages/pins"})
    \cup Each("GET", Channel, {"/messages/{}/reactions/{}"})
    \cup Each("PUT", Channel, {"/messages/{}/reactions/{}/@me", "/pins/{}", "/messages/pins/{}"})
    \cup Each("DELETE", Channel,
           {"/messages/{}/reactions", "/messages/{}/reactions/{}", "/messages/{}/reactions/{}/@me",
            "/messages/{}/reactions/{}/{}", "/pins/{}", "/messages/pins/{}"})

(* Bot hands its message methods to MessageService one by one.             *)
BotMessageRoutes == UNION {SendRoutes, PollAndMessageRoutes, ReactionAndPinRoutes}

(* It asks a compatible server only, never discord.com.                    *)
delete_webhook == Only("POST", "/webhooks", {""})

BotApplicationRoutes ==
    Only("GET", "/applications/@me", {""}) \cup Only("PATCH", "/applications/@me", {""})
    \cup Only("GET", Application, {"/role-connections/metadata"})
    \cup Only("PUT", Application, {"/role-connections/metadata"})

Routes == UNION {APIClientRoutes, BotMessageRoutes, BotApplicationRoutes, delete_webhook}

(* A route lock is found by the path as it is written, so a path written   *)
(* twice must be the same path: but for delete_webhook, Bot and            *)
(* MessageService use no route APIClient does not.                         *)
ASSUME OneSpelling ==
    BotMessageRoutes \cup BotApplicationRoutes \subseteq APIClientRoutes
=============================================================================
