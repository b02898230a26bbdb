---------------------------- MODULE PlatformRules ----------------------------
(***************************************************************************)
(* What the platform adapters declare and what they answer: the capability *)
(* matrices of packages/platform-zalo, -facebook and -tiktok, and the base *)
(* class in packages/platform-core that answers for every operation an     *)
(* adapter does not implement.  Pure operators, no state.                  *)
(***************************************************************************)

PlatformCapability ==
    {"AUTHENTICATE", "CONTACTS", "FRIENDS", "GROUPS", "GROUP_MEMBERS", "MESSAGING", "MEDIA",
     "POST_CREATE", "POST_UPDATE", "POST_DELETE", "MESSAGE_HISTORY", "GROUP_CREATE",
     "GROUP_MEMBER_MANAGE", "ANALYTICS"}

MatrixOf(supported, unsupported) ==
    [c \in PlatformCapability |->
        IF c \in supported THEN "SUPPORTED"
        ELSE IF c \in unsupported THEN "NOT_SUPPORTED"
        ELSE "PERMISSION_REQUIRED"]

ZaloMatrix == MatrixOf({"AUTHENTICATE", "MESSAGING", "MEDIA"}, {"FRIENDS", "GROUP_CREATE"})

FacebookMatrix ==
    MatrixOf({"AUTHENTICATE"}, {"FRIENDS", "GROUP_MEMBERS", "GROUP_CREATE", "GROUP_MEMBER_MANAGE"})

TikTokMatrix ==
    MatrixOf({"AUTHENTICATE"}, PlatformCapability \ {"AUTHENTICATE", "MEDIA", "POST_CREATE",
                                                     "POST_DELETE", "ANALYTICS"})

(* PlatformRegistryService: the three adapters by their platform.          *)
capabilities == [ZALO |-> ZaloMatrix, FACEBOOK |-> FacebookMatrix, TIKTOK |-> TikTokMatrix]

Platforms == DOMAIN capabilities

(* configured(): the adapter's credentials are in the environment.         *)
required ==
    [ZALO |-> {"ZALO_CLIENT_ID", "ZALO_CLIENT_SECRET", "ZALO_REDIRECT_URI"},
     FACEBOOK |-> {"FACEBOOK_CLIENT_ID", "FACEBOOK_CLIENT_SECRET"},
     TIKTOK |-> {"TIKTOK_CLIENT_ID", "TIKTOK_CLIENT_SECRET"}]

configured(platform, environment) == required[platform] \subseteq environment

(* OfficialApiAdapter.unavailable, the answer to every operation that the  *)
(* adapter leaves to the base class: it is never SUCCESS.                  *)
unavailable(platform, capability, environment) ==
    IF ~configured(platform, environment) THEN "NOT_CONFIGURED"
    ELSE IF capabilities[platform][capability] # "SUPPORTED" THEN "NOT_SUPPORTED"
    ELSE "FAILED"

(* No adapter overrides createPost.                                        *)
createPost(platform, environment) == unavailable(platform, "POST_CREATE", environment)

(* The checks of publishPost before anything is written.                   *)
MayPublish(account, environment) ==
    /\ configured(account.platform, environment)
    /\ \/ capabilities[account.platform]["POST_CREATE"] = "SUPPORTED"
       \/ /\ capabilities[account.platform]["POST_CREATE"] = "PERMISSION_REQUIRED"
          /\ account.granted

=============================================================================
