------------------------------ MODULE Routing ------------------------------
(***************************************************************************)
(* The pure text decisions of the gateway: the built-in risk rules         *)
(* (internal/routing/risk.go), the configurable rules                      *)
(* (internal/routing/dynamic_rule.go), the sensitive-intent test of the    *)
(* response validator (internal/chat/validator.go) and the test that keeps *)
(* a risky question away from the direct knowledge reply (service.go).     *)
(*                                                                         *)
(* Every one of them asks which of some fixed terms occur in the message,  *)
(* so a message is abstracted to the terms it contains.  A term is written *)
(* in pinyin; the comment beside it gives the text of the source.          *)
(***************************************************************************)
EXTENDS Naturals, Sequences

HumanTerms == {"zhuanrengong", "rengongkefu", "zhenrenkefu"}  \* 转人工 人工客服 真人客服
RefundTerms == {"tuikuan", "tuiqian", "tuifei", "tuihuiyuan"}  \* 退款 退钱 退费 退会员
ComplaintTerms == {"tousu", "jubaokefu", "woyaojubao", "bumanyi"}  \* 投诉 举报客服 我要举报 不满意
\* Mutant: a word for cancelling an account is forgotten.
AccountTerms_NoCancellation == {"shanchuzhanghao", "gaishoujihao", "huanbang", "xiugaishiming"}

AccountTerms == {"zhuxiao", "shanchuzhanghao", "gaishoujihao",   \* 注销 删除账号 改手机号
                 "huanbang", "xiugaishiming"}                    \* 换绑 修改实名
PaymentTerms == {"zhifuzhengyi", "koukuanyichang", "chongfukoukuan"}  \* 支付争议 扣款异常 重复扣款
PasswordTerms == {"mimacuowuguoduo", "mimacuowutaiduo"}  \* 密码错误过多 密码错误太多
RecoverTerms == {"zhaohuizhanghaomima", "zhaohuimima", "wangjimima"}  \* 找回账号密码 找回密码 忘记密码
DeviceTerms == {"zhanghaoyichangshebeidenglu", "yichangshebeidenglu",  \* 账号异常设备登录 异常设备登录
                "yididenglu"}                                          \* 异地登录
ViolationTerms == {"zhanghaoweiguijubao", "weiguijubao", "jubaozhanghao"}  \* 账号违规举报 违规举报 举报账号

\* Mutant: the fixed replies are tried first.
RiskRules_RepliesFirst ==
    << [intent |-> "faq_password_too_many_failures", terms |-> PasswordTerms, handoff |-> FALSE],
       [intent |-> "faq_recover_account_password", terms |-> RecoverTerms, handoff |-> FALSE],
       [intent |-> "faq_abnormal_device_login", terms |-> DeviceTerms, handoff |-> FALSE],
       [intent |-> "faq_report_account_violation", terms |-> ViolationTerms, handoff |-> FALSE],
       [intent |-> "human_requested", terms |-> HumanTerms, handoff |-> TRUE],
       [intent |-> "refund", terms |-> RefundTerms, handoff |-> TRUE],
       [intent |-> "complaint", terms |-> ComplaintTerms, handoff |-> TRUE],
       [intent |-> "account_change", terms |-> AccountTerms, handoff |-> TRUE],
       [intent |-> "payment_dispute", terms |-> PaymentTerms, handoff |-> TRUE] >>

\* The rules of RiskRouter.Match in the order the code tries them.
RiskRules ==
    << [intent |-> "human_requested", terms |-> HumanTerms, handoff |-> TRUE],
       [intent |-> "refund", terms |-> RefundTerms, handoff |-> TRUE],
       [intent |-> "complaint", terms |-> ComplaintTerms, handoff |-> TRUE],
       [intent |-> "account_change", terms |-> AccountTerms, handoff |-> TRUE],
       [intent |-> "payment_dispute", terms |-> PaymentTerms, handoff |-> TRUE],
       [intent |-> "faq_password_too_many_failures", terms |-> PasswordTerms, handoff |-> FALSE],
       [intent |-> "faq_recover_account_password", terms |-> RecoverTerms, handoff |-> FALSE],
       [intent |-> "faq_abnormal_device_login", terms |-> DeviceTerms, handoff |-> FALSE],
       [intent |-> "faq_report_account_violation", terms |-> ViolationTerms, handoff |-> FALSE] >>

\* Terms of hasSensitiveUserIntent; zhuxiaozhanghao is 注销账号, the others are above.
SensitiveTerms == {"tuikuan", "tuiqian", "tuifei", "tousu", "jubaokefu", "chongfukoukuan",
                   "koukuanyichang", "zhuxiaozhanghao", "shanchuzhanghao", "xiugaishiming",
                   "huanbang"}

\* Terms of isRiskyDirectReplyQuery: 退款 退钱 未成年 封号 解封 账号安全 帐号安全 换绑 验证码 注销 人工 投诉
RiskyTerms == {"tuikuan", "tuiqian", "weichengnian", "fenghao", "jiefeng", "zhanghaoanquan",
               "zhanghaoanquan_variant", "huanbang", "yanzhengma", "zhuxiao", "rengong", "tousu"}

Terms == HumanTerms \cup RefundTerms \cup ComplaintTerms \cup AccountTerms \cup PaymentTerms
         \cup PasswordTerms \cup RecoverTerms \cup DeviceTerms \cup ViolationTerms
         \cup SensitiveTerms \cup RiskyTerms

\* Terms whose text contains another term's text.
PartOf == { <<"zhuxiao", "zhuxiaozhanghao">>, <<"rengong", "zhuanrengong">>,
            <<"rengong", "rengongkefu">>, <<"weiguijubao", "zhanghaoweiguijubao">>,
            <<"yichangshebeidenglu", "zhanghaoyichangshebeidenglu">> }

\* A set of terms a text can contain: strings.Contains finds the parts of what it finds.
Closed(words) == \A p \in PartOf : p[2] \in words => p[1] \in words

\* words: the terms in the message as it was sent.  folded: the terms in it once
\* normalizeRAGText has taken blanks and punctuation out, which can only add terms.
Message == { m \in [words : SUBSET Terms, folded : SUBSET Terms] :
                Closed(m.words) /\ Closed(m.folded) /\ m.words \subseteq m.folded }

\* strings.Contains of any of the keywords; both routers scan the message as it was sent.
ContainsAny(words, terms) == words \cap terms # {}

\* The indices of the rules the message hits.
Hits(rules, m) == { i \in DOMAIN rules : ContainsAny(m.words, rules[i].terms) }

\* The first rule in order wins.
IsFirstHit(i, rules, m) == i \in Hits(rules, m) /\ \A j \in Hits(rules, m) : i <= j

FirstHit(rules, m) == rules[CHOOSE i \in DOMAIN rules : IsFirstHit(i, rules, m)]

\* RiskRouter.Match
RiskMatched(m) == Hits(RiskRules, m) # {}

RiskResult(m) ==
    LET rule == FirstHit(RiskRules, m)
    IN  [route |-> IF rule.handoff THEN "rule_handoff" ELSE "fixed_faq",
         handoff |-> rule.handoff]

\* An enabled rule of the back office; a list of them is in the order the store gives.
DynamicRule == [terms : SUBSET Terms, action : {"handoff", "reply"}]

\* DynamicRuleRouter.Match and ruleResult
DynamicMatched(rules, m) == Hits(rules, m) # {}

DynamicResult(rules, m) ==
    [route |-> "db_rule", handoff |-> FirstHit(rules, m).action = "handoff"]

\* Mutant: the built-in rules are forgotten.
RuleMatched_ConfiguredOnly(rules, m) == DynamicMatched(rules, m)

\* Service.matchRule: configured rules come first, the built-in ones are the safety net.
RuleMatched(rules, m) == DynamicMatched(rules, m) \/ RiskMatched(m)

RuleResult(rules, m) ==
    IF DynamicMatched(rules, m) THEN DynamicResult(rules, m) ELSE RiskResult(m)

\* hasSensitiveUserIntent (validator.go)
HasSensitiveUserIntent(m) == ContainsAny(m.words, SensitiveTerms)

\* isRiskyDirectReplyQuery (service.go), which looks at the normalised text.
IsRiskyDirectReplyQuery(m) == ContainsAny(m.folded, RiskyTerms)
=============================================================================
