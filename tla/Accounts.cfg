\* Challenges: one account, two addresses, two challenges, emails and requests.
\* Credentials: two users, providers, passkeys and requests, three ceremonies.
SPECIFICATION AccountsSpec
CONSTANTS
    Accounts = {u1}
    Emails = {e1, e2}
    Logins = {s1}
    ChallengeIds = {1, 2}
    Mails = {1, 2}
    Verifiers = {v1, v2}
    LastTick = 2
    MaxWait = 0
    TTL = 1
    VerificationCodeTTL = 1
    MinimumResendInterval = 0
    MaxAttempts = 1
    MaxResends = 1
    Deliveries = 1
    Purposes = {"signup", "password_reset", "email_change", "email_verification"}
    Nobody = Nobody
    Holders = {e1, e2}
    Providers = {"google", "apple"}
    Subjects = {x1, x2}
    Keys = {1, 2}
    Ceremonies = {1, 2, 3}
    Links = {1, 2}
    Signins = {1, 2}
    Clients = {v1, v2}
    Responses = {"alert", "restrict", "restrict_and_revoke"}
    MaxCount = 2
    MaxWord = 3
    MaxReauth = 1
    Nothing = Nothing
SYMMETRY Symmetry
INVARIANTS
    GuessesBounded
    VerifiedIsProven
    ReplayNoticed
    RestrictedShutOut
PROPERTIES
    ResetsCurrent
    MethodKept
    PasswordNotRevived
    IdentityByLink
CHECK_DEADLOCK FALSE
