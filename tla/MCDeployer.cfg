SPECIFICATION DeployerSpec
CONSTANTS
    Members = 2
    Passwords = {"p", "q"}
    Weak = {"q"}
    Kinds = {"prepare_sd", "alpine", "deploy", "restart", "wifi"}
    Hosts = {{"root"}, {"bash"}, {"bash", "sudo"}, {"bash", "su"}, {"doas"}}
    Jobs = 2
    Edits = 1
    Patience = 1
    Redirects = 1
INVARIANTS PasswordShown StagingSound  PageHonest
PROPERTIES SessionIsNew
CHECK_DEADLOCK FALSE
