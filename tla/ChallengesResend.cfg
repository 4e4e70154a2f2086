\* One signup challenge, its first email and a resend; a delivery is retried.
SPECIFICATION ChallengesSpec
CONSTANTS
    Accounts = {u1}
    Emails = {e1}
    Logins = {s1}
    ChallengeIds = {c1}
    Mails = {m1, m2}
    Verifiers = {v1}
    LastTick = 1
    MaxWait = 0
    TTL = 1
    VerificationCodeTTL = 1
    MinimumResendInterval = 0
    MaxAttempts = 1
    MaxResends = 1
    Deliveries = 2
    Purposes = {"signup"}
    Nobody = Nobody
PROPERTY ResendAuthoritative
CHECK_DEADLOCK FALSE
